---- MODULE Spec2Model ----
(***************************************************************************)
(* Model of the educational video library scanner (src/edu_scanner.py):    *)
(* the directory walk of scan_directory, the sidecar (.nfo) and container  *)
(* readers, the filename title parser and the provenance flags.            *)
(*                                                                         *)
(* Spec is a scan of a library; ParserSpec is a direct call of             *)
(* parse_lesson_filename; CancelSpec is a scan during which the front end  *)
(* (src/gui.py) may be told to stop; RescanSpec scans a library twice;     *)
(* DbSpec is a sequence of calls of the store (src/database.py) and        *)
(* FormatSpec a call of its _format_source; FrontSpec is a run of a front  *)
(* end: the command line, src/gui.py, src/eduscan-gui.py, src/eduscan-qt.py*)
(*                                                                         *)
(* Text is a sequence of one-character strings.  An optional value         *)
(* (Python's Optional[...]) is a sequence of length 0 (None) or 1.         *)
(***************************************************************************)
EXTENDS Integers, Sequences, FiniteSets, TLC

\* ------------------------------------------------------------------ bounds
\* Most elements in one sidecar document of the single-lesson libraries.
MaxElems == 2
\* Most video files, and most sidecar files, of a multi-file library.
MaxVideos == 2
MaxNfos == 2

\* ------------------------------------------------------- optional values
None == <<>>
Some(v) == <<v>>
IsSome(o) == o # None
Val(o) == o[1]
\* Python truthiness of an Optional[str] / Optional[int].
TruthyText(o) == IsSome(o) /\ Val(o) # <<>>
TruthyInt(o) == IsSome(o) /\ Val(o) # 0

\* ------------------------------------------------------------------ text
UpperCase == << "A","B","C","D","E","F","G","H","I","J","K","L","M",
                "N","O","P","Q","R","S","T","U","V","W","X","Y","Z" >>
LowerCase == << "a","b","c","d","e","f","g","h","i","j","k","l","m",
                "n","o","p","q","r","s","t","u","v","w","x","y","z" >>
DigitChars == << "0","1","2","3","4","5","6","7","8","9" >>
\* The characters used, in code point order (only the order is used).
CodePoints == << "\t", " ", "-", "." >> \o DigitChars \o << ":" >>
              \o UpperCase \o LowerCase
CodeOf ==
    [ c \in { CodePoints[i] : i \in 1..Len(CodePoints) } |->
        CHOOSE i \in 1..Len(CodePoints) : CodePoints[i] = c ]
Code(c) == CodeOf[c]

Digits == { DigitChars[i] : i \in 1..Len(DigitChars) }
WS == { " ", "\t" }

SetMax(S) == CHOOSE x \in S : \A y \in S : y <= x
SetMin(S) == CHOOSE x \in S : \A y \in S : x <= y

\* str.lower() on one character, and on a text.
LowerOf ==
    [ c \in { CodePoints[i] : i \in 1..Len(CodePoints) } |->
        IF \E i \in 1..Len(UpperCase) : UpperCase[i] = c
        THEN LowerCase[CHOOSE i \in 1..Len(UpperCase) : UpperCase[i] = c]
        ELSE c ]
LowerChar(c) == LowerOf[c]
Lower(s) == [i \in 1..Len(s) |-> LowerChar(s[i])]

\* str.strip(): leading and trailing whitespace removed.
Strip(s) ==
    LET keep == { i \in 1..Len(s) : s[i] \notin WS }
    IN  IF keep = {} THEN <<>> ELSE SubSeq(s, SetMin(keep), SetMax(keep))

EndsWith(s, t) ==
    /\ Len(s) >= Len(t)
    /\ SubSeq(s, Len(s) - Len(t) + 1, Len(s)) = t

\* s[i .. i+n-1] lies inside s and consists of characters of class C.
AllIn(s, i, n, C) ==
    /\ i + n - 1 <= Len(s)
    /\ \A k \in i..(i + n - 1) : s[k] \in C

\* Lexicographic order of texts by code point (Python's str <): decided at
\* the first position where they differ, else by length.
TextLess(s, t) ==
    LET diff == { i \in 1..Len(s) : i <= Len(t) /\ s[i] # t[i] }
    IN  IF diff = {} THEN Len(s) < Len(t)
        ELSE Code(s[SetMin(diff)]) < Code(t[SetMin(diff)])

\* ------------------------------------------------------------------ paths
\* A path is the sequence of its parts below the library root.
\* PurePath.__lt__: the lists of parts compared lexicographically.
PathLess(p, q) ==
    LET diff == { i \in 1..Len(p) : i <= Len(q) /\ p[i] # q[i] }
    IN  IF diff = {} THEN Len(p) < Len(q)
        ELSE TextLess(p[SetMin(diff)], q[SetMin(diff)])

PathName(p) == p[Len(p)]
PathParent(p) == SubSeq(p, 1, Len(p) - 1)

\* Index of the last "." of a name when it separates a suffix, else 0
\* (PurePath.suffix / PurePath.stem: 0 < rfind('.') < len(name) - 1).
SuffixDot(name) ==
    LET dots == { i \in 1..Len(name) : name[i] = "." }
    IN  IF dots # {} /\ 1 < SetMax(dots) /\ SetMax(dots) < Len(name)
        THEN SetMax(dots) ELSE 0
PathSuffix(name) ==
    IF SuffixDot(name) = 0 THEN <<>>
    ELSE SubSeq(name, SuffixDot(name), Len(name))
PathStem(name) ==
    IF SuffixDot(name) = 0 THEN name
    ELSE SubSeq(name, 1, SuffixDot(name) - 1)

\* ------------------------------------------------- filename title parser
LessonWord == << "l","e","s","s","o","n" >>
Separators1 == { "-", ":" }
Separators2 == { "-", ":", "." }

\* s[1..p] matches  Lesson\s+\d+\s*[-:]?\s*  (case-insensitively).
LessonPrefixEnds(s) ==
    IF Len(s) < Len(LessonWord) \/ Lower(SubSeq(s, 1, Len(LessonWord))) # LessonWord
    THEN {}
    ELSE
    { p \in 0..Len(s) :
        \E a \in 1..Len(s) :
          /\ AllIn(s, Len(LessonWord) + 1, a, WS)
          /\ \E b \in 1..Len(s) :
               /\ AllIn(s, Len(LessonWord) + a + 1, b, Digits)
               /\ \E c \in 0..Len(s) :
                    /\ AllIn(s, Len(LessonWord) + a + b + 1, c, WS)
                    /\ \E d \in 0..1 :
                         /\ AllIn(s, Len(LessonWord) + a + b + c + 1, d, Separators1)
                         /\ \E e \in 0..Len(s) :
                              /\ AllIn(s, Len(LessonWord) + a + b + c + d + 1, e, WS)
                              /\ p = Len(LessonWord) + a + b + c + d + e }

\* s[1..p] matches  \d+\s*[-:\.]\s*  when sepMin = 1, and
\* \d+\s*[-:\.]?\s*  when sepMin = 0.
NumberPrefixEnds(s, sepMin) ==
    IF ~AllIn(s, 1, 1, Digits) THEN {}
    ELSE
    { p \in 0..Len(s) :
        \E b \in 1..Len(s) :
          /\ AllIn(s, 1, b, Digits)
          /\ \E c \in 0..Len(s) :
               /\ AllIn(s, b + 1, c, WS)
               /\ \E d \in sepMin..1 :
                    /\ AllIn(s, b + c + 1, d, Separators2)
                    /\ \E e \in 0..Len(s) :
                         /\ AllIn(s, b + c + d + 1, e, WS)
                         /\ p = b + c + d + e }

\* re.match(prefix + '(.+)$'): the greedy quantifiers give the longest prefix
\* that leaves a non-empty remainder; group(1) is that remainder.
GroupAfter(s, ends) ==
    LET ok == { p \in ends : p < Len(s) }
    IN  IF ok = {} THEN None
        ELSE Some(SubSeq(s, SetMax(ok) + 1, Len(s)))

parse_lesson_filename(filename) ==
    LET name_without_ext == PathStem(filename)
        m1 == GroupAfter(name_without_ext, LessonPrefixEnds(name_without_ext))
        m2 == GroupAfter(name_without_ext, NumberPrefixEnds(name_without_ext, 1))
        strip == NumberPrefixEnds(name_without_ext, 0)
        cleaned == Strip(IF strip = {} THEN name_without_ext
                         ELSE SubSeq(name_without_ext, SetMax(strip) + 1,
                                     Len(name_without_ext)))
    IN  IF IsSome(m1) THEN Some(Strip(Val(m1)))
        ELSE IF IsSome(m2) THEN Some(Strip(Val(m2)))
        ELSE IF cleaned # <<>> THEN Some(cleaned) ELSE None

\* --------------------------------------------------------------- sidecar
\* A sidecar document: whether ET.parse accepts it, and the child elements
\* of its root, each a tag and a text (None for an empty element).
Elem(tag, text) == [tag |-> tag, text |-> text]
Malformed == [ok |-> FALSE, elems |-> <<>>]
Document(elems) == [ok |-> TRUE, elems |-> elems]

RECURSIVE DecimalValue(_)
DecimalValue(ds) ==
    IF ds = <<>> THEN 0
    ELSE 10 * DecimalValue(SubSeq(ds, 1, Len(ds) - 1))
         + (Code(ds[Len(ds)]) - Code("0"))

\* int(text): None for a TypeError (text is None) or a ValueError.
PyInt(text) ==
    IF ~IsSome(text) THEN None
    ELSE LET t == Strip(Val(text))
             signed == t # <<>> /\ Head(t) = "-"
             ds == IF signed THEN Tail(t) ELSE t
         IN  IF ds # <<>> /\ AllIn(ds, 1, Len(ds), Digits)
             THEN Some(IF signed THEN 0 - DecimalValue(ds) ELSE DecimalValue(ds))
             ELSE None

RECURSIVE TvshowFold(_, _)
TvshowFold(elems, metadata) ==
    IF elems = <<>> THEN metadata
    ELSE LET elem == Head(elems)
         IN  TvshowFold(Tail(elems),
                 IF elem.tag = "title" THEN [metadata EXCEPT !.name = elem.text]
                 ELSE IF elem.tag = "plot" THEN [metadata EXCEPT !.description = elem.text]
                 ELSE IF elem.tag = "director" THEN [metadata EXCEPT !.instructor = elem.text]
                 ELSE IF elem.tag = "year" THEN [metadata EXCEPT !.year = elem.text]
                 ELSE metadata)

parse_tvshow_nfo(doc) ==
    IF ~doc.ok THEN None
    ELSE Some(TvshowFold(doc.elems,
              [name |-> None, description |-> None, instructor |-> None, year |-> None]))

\* The runtime element of a sidecar is in minutes.
SecondsPerMinute == 60

RECURSIVE EpisodeFold(_, _)
EpisodeFold(elems, metadata) ==
    IF elems = <<>> THEN metadata
    ELSE LET elem == Head(elems)
         IN  EpisodeFold(Tail(elems),
                 IF elem.tag = "title" THEN [metadata EXCEPT !.title = elem.text]
                 ELSE IF elem.tag = "plot" THEN [metadata EXCEPT !.description = elem.text]
                 ELSE IF elem.tag = "runtime" /\ IsSome(PyInt(elem.text))
                      THEN [metadata EXCEPT
                              !.duration = Some(Val(PyInt(elem.text)) * SecondsPerMinute)]
                 ELSE metadata)

parse_episode_nfo(doc) ==
    IF ~doc.ok THEN None
    ELSE Some(EpisodeFold(doc.elems,
              [title |-> None, description |-> None, duration |-> None]))

\* ------------------------------------------------------------- container
\* What MediaInfo.parse gives for a file: failure, or the list of tracks.
Track(type, duration, title) ==
    [track_type |-> type, duration |-> duration, title |-> title]
ProbeFails == [ok |-> FALSE, tracks |-> <<>>]
Probe(tracks) == [ok |-> TRUE, tracks |-> tracks]

\* The container reports a duration in milliseconds.
MillisPerSecond == 1000

\* extract_media_metadata past the MediaInfo-is-None test: the first General
\* track decides.
extract_media_metadata(media) ==
    IF ~media.ok THEN None
    ELSE LET general == { i \in 1..Len(media.tracks) :
                            media.tracks[i].track_type = "General" }
         IN  IF general = {} THEN Some([duration |-> None, title |-> None])
             ELSE LET track == media.tracks[SetMin(general)]
                  IN  Some([duration |->
                               IF TruthyInt(track.duration)
                               THEN Some(Val(track.duration) \div MillisPerSecond)
                               ELSE None,
                            title |->
                               IF TruthyText(track.title) THEN track.title ELSE None])

\* ------------------------------------------------------------- filesystem
\* A file of the library: its XML content and its container metadata.
File(xml, media) == [xml |-> xml, media |-> media]

video_extensions ==
    { <<".","m","p","4">>, <<".","m","k","v">>, <<".","a","v","i">>,
      <<".","m","o","v">>, <<".","f","l","v">>, <<".","w","m","v">>,
      <<".","w","e","b","m">>, <<".","m","4","v">> }
\* Mutant: the suffix compared without lower().
is_video_file_CaseSensitive(path) == PathSuffix(PathName(path)) \in video_extensions
is_video_file(path) == Lower(PathSuffix(PathName(path))) \in video_extensions

NfoSuffix == <<".","n","f","o">>
\* fnmatch of '*.nfo' (case-sensitive).
MatchesNfo(name) == EndsWith(name, NfoSuffix)

\* ------------------------------------------------------------------ state
VARIABLES
    fs,           \* the library below its root: path -> File
    root_exists,  \* library_path.exists()
    MediaInfo,    \* the pymediainfo capability was imported
    listing,      \* the order in which the filesystem lists a directory
    pc,           \* position of scan_directory
    course_dirs,  \* entries of the root still to visit (sorted)
    video_files,  \* videos of the current course still to process (sorted)
    course,       \* the Course being assembled
    lesson,       \* the Lesson being resolved
    courses,      \* the result list
    parser_arg,   \* the argument of a direct call of parse_lesson_filename
    returned,     \* what that call returned: <<>> before it returns, else << value >>
    scanning,     \* the front end's flag: a scan was started and not stopped
    previous,     \* << result >> of the scan before this one, else << >>
    db,           \* the tables of the SQLite file
    call,         \* the last call of the store: its arguments and result
    first_id,     \* the id first returned for each key since the store was cleared
    shell,        \* which front end runs
    scan_result,  \* what scan_directory returns for the front end's library
    scan_button,  \* the Scan button is enabled
    stop_button,  \* the Stop button is enabled
    workers       \* the scan workers started so far

vars == << fs, root_exists, MediaInfo, listing, pc, course_dirs, video_files,
           course, lesson, courses, parser_arg, returned, scanning, previous,
           db, call, first_id, shell, scan_result, scan_button, stop_button, workers >>

\* ------------------------------------------------------- directory listing
IsPrefix(d, p) == Len(p) > Len(d) /\ SubSeq(p, 1, Len(d)) = d
Exists(p) == p \in DOMAIN fs \/ \E q \in DOMAIN fs : IsPrefix(p, q)
IsDir(d) == \E q \in DOMAIN fs : IsPrefix(d, q)
\* The paths of the immediate children of directory d.
Children(d) == { SubSeq(q, 1, Len(d) + 1) : q \in { r \in DOMAIN fs : IsPrefix(d, r) } }

\* The elements of a set of paths as a sequence in ascending order.
SortSet(S) ==
    [ k \in 1..Cardinality(S) |->
        CHOOSE x \in S : Cardinality({ y \in S : PathLess(y, x) }) = k - 1 ]
Range(seq) == { seq[i] : i \in 1..Len(seq) }
\* Mutant: the list is used in the order the filesystem lists it.
SortedPaths_AsListed(seq) == seq
\* sorted() of a duplicate-free list of paths.
SortedPaths(seq) == SortSet(Range(seq))
Reverse(seq) == [ k \in 1..Len(seq) |-> seq[Len(seq) + 1 - k] ]

\* os.scandir order of a set of sibling paths: not sorted by the OS; the
\* two orders modelled are ascending and descending by name.
Listed(S) == IF listing = "asc" THEN SortSet(S) ELSE Reverse(SortSet(S))

RECURSIVE Concat(_)
Concat(seqs) == IF seqs = <<>> THEN <<>> ELSE Head(seqs) \o Concat(Tail(seqs))

\* os.walk(top): the files of top, then the walk of each subdirectory.
RECURSIVE Walk(_)
Walk(top) ==
    LET entries == Listed(Children(top))
        files == SelectSeq(entries, LAMBDA p : p \in DOMAIN fs)
        dirs == SelectSeq(entries, LAMBDA p : p \notin DOMAIN fs)
    IN  files \o Concat([ i \in 1..Len(dirs) |-> Walk(dirs[i]) ])

\* directory.glob('*.nfo'): the matching children, in listing order.
GlobNfo(directory) ==
    SelectSeq(Listed(Children(directory)), LAMBDA p : MatchesNfo(PathName(p)))

find_nfo_file(directory) ==
    LET nfo_files == GlobNfo(directory)
    IN  IF nfo_files # <<>> THEN Some(nfo_files[1]) ELSE None

\* ------------------------------------------------------------ data classes
MetadataSource ==
    [nfo |-> FALSE, file_tags |-> FALSE, filename |-> FALSE, directory_name |-> FALSE]

Lesson(filepath, filename) ==
    [filepath |-> filepath, filename |-> filename, title |-> None,
     duration |-> None, description |-> None, source |-> MetadataSource]

Course(dirpath, name) ==
    [dirpath |-> dirpath, name |-> name, description |-> None, instructor |-> None,
     year |-> None, lessons |-> <<>>, source |-> MetadataSource]

NoLesson == Lesson(<<>>, <<>>)
NoCourse == Course(<<>>, <<>>)

FromDirSuffix == << "-","f","r","o","m","d","i","r" >>

\* ------------------------------------------------------ field resolution
\* Mutant: the sidecar name is taken but directory_name is left set.
ApplyTvshowNfo_KeepDirFlag(c, nfo_data) ==
    IF ~IsSome(nfo_data) THEN c
    ELSE LET d == Val(nfo_data)
             c1 == IF TruthyText(d.name)
                   THEN [c EXCEPT !.name = Val(d.name), !.source.nfo = TRUE]
                   ELSE c
             c2 == IF TruthyText(d.description)
                   THEN [c1 EXCEPT !.description = d.description] ELSE c1
             c3 == IF TruthyText(d.instructor)
                   THEN [c2 EXCEPT !.instructor = d.instructor] ELSE c2
         IN  IF TruthyText(d.year) THEN [c3 EXCEPT !.year = d.year] ELSE c3

\* scan_directory, the course-level sidecar applied to the course.
ApplyTvshowNfo(c, nfo_data) ==
    IF ~IsSome(nfo_data) THEN c
    ELSE LET d == Val(nfo_data)
             c1 == IF TruthyText(d.name)
                   THEN [c EXCEPT !.name = Val(d.name),
                                  !.source.directory_name = FALSE,
                                  !.source.nfo = TRUE]
                   ELSE c
             c2 == IF TruthyText(d.description)
                   THEN [c1 EXCEPT !.description = d.description] ELSE c1
             c3 == IF TruthyText(d.instructor)
                   THEN [c2 EXCEPT !.instructor = d.instructor] ELSE c2
         IN  IF TruthyText(d.year) THEN [c3 EXCEPT !.year = d.year] ELSE c3

\* Mutant: no preference for the document named after the video's stem.
NfoCandidates_GlobOnly(video_path) == GlobNfo(PathParent(video_path))

\* The sidecar documents tried for a video: the one named after its stem,
\* else every *.nfo of its directory.
NfoCandidates(video_path) ==
    LET video_dir == PathParent(video_path)
        exact == video_dir \o << PathStem(PathName(video_path)) \o NfoSuffix >>
    IN  IF Exists(exact) THEN << exact >> ELSE GlobNfo(video_dir)

\* Mutant: the loop goes on to the next candidate when one fails to parse.
LessonNfoData_NextOnFailure(video_path) ==
    LET parsed == SelectSeq(NfoCandidates(video_path),
                            LAMBDA p : Exists(p) /\ IsSome(parse_episode_nfo(fs[p].xml)))
    IN  IF parsed = <<>> THEN None ELSE parse_episode_nfo(fs[parsed[1]].xml)

\* The parse of the first candidate that exists (the loop breaks there).
LessonNfoData(video_path) ==
    LET found == SelectSeq(NfoCandidates(video_path), Exists)
    IN  IF found = <<>> THEN None ELSE parse_episode_nfo(fs[found[1]].xml)

\* Mutant: the nfo flag is set for every sidecar that parses, with or
\* without a title.
ApplyEpisodeNfo_FlagAlways(l, nfo_data) ==
    IF ~IsSome(nfo_data) THEN l
    ELSE LET d == Val(nfo_data)
             l1 == IF TruthyText(d.title)
                   THEN [l EXCEPT !.title = d.title, !.source.nfo = TRUE]
                   ELSE [l EXCEPT !.source.nfo = TRUE]
             l2 == IF TruthyInt(d.duration) /\ ~TruthyInt(l1.duration)
                   THEN [l1 EXCEPT !.duration = d.duration] ELSE l1
         IN  IF TruthyText(d.description)
             THEN [l2 EXCEPT !.description = d.description] ELSE l2

ApplyEpisodeNfo(l, nfo_data) ==
    IF ~IsSome(nfo_data) THEN l
    ELSE LET d == Val(nfo_data)
             l1 == IF TruthyText(d.title)
                   THEN [l EXCEPT !.title = d.title, !.source.nfo = TRUE] ELSE l
             l2 == IF TruthyInt(d.duration) /\ ~TruthyInt(l1.duration)
                   THEN [l1 EXCEPT !.duration = d.duration] ELSE l1
         IN  IF TruthyText(d.description)
             THEN [l2 EXCEPT !.description = d.description] ELSE l2

\* Mutant: the container title is taken without the test of lesson.title.
ApplyMedia_OverwriteTitle(l, media_data) ==
    IF ~IsSome(media_data) THEN l
    ELSE LET d == Val(media_data)
             l1 == IF ~TruthyInt(l.duration) /\ TruthyInt(d.duration)
                   THEN [l EXCEPT !.duration = d.duration] ELSE l
         IN  IF TruthyText(d.title)
             THEN [l1 EXCEPT !.title = d.title, !.source.file_tags = TRUE] ELSE l1

\* Mutant: the container duration is taken without the test of
\* lesson.duration.
ApplyMedia_OverwriteDuration(l, media_data) ==
    IF ~IsSome(media_data) THEN l
    ELSE LET d == Val(media_data)
             l1 == IF TruthyInt(d.duration)
                   THEN [l EXCEPT !.duration = d.duration] ELSE l
         IN  IF ~TruthyText(l1.title) /\ TruthyText(d.title)
             THEN [l1 EXCEPT !.title = d.title, !.source.file_tags = TRUE] ELSE l1

\* Mutant: the container title also fills an absent description.
ApplyMedia_TitleAsDescription(l, media_data) ==
    IF ~IsSome(media_data) THEN l
    ELSE LET d == Val(media_data)
             l1 == IF ~TruthyInt(l.duration) /\ TruthyInt(d.duration)
                   THEN [l EXCEPT !.duration = d.duration] ELSE l
             l2 == IF ~TruthyText(l1.description) /\ TruthyText(d.title)
                   THEN [l1 EXCEPT !.description = d.title] ELSE l1
         IN  IF ~TruthyText(l2.title) /\ TruthyText(d.title)
             THEN [l2 EXCEPT !.title = d.title, !.source.file_tags = TRUE] ELSE l2

ApplyMedia(l, media_data) ==
    IF ~IsSome(media_data) THEN l
    ELSE LET d == Val(media_data)
             l1 == IF ~TruthyInt(l.duration) /\ TruthyInt(d.duration)
                   THEN [l EXCEPT !.duration = d.duration] ELSE l
         IN  IF ~TruthyText(l1.title) /\ TruthyText(d.title)
             THEN [l1 EXCEPT !.title = d.title, !.source.file_tags = TRUE] ELSE l1

\* Mutant: the filename is parsed without the test of lesson.title.
ApplyFilename_Always(l) ==
    LET parsed_title == parse_lesson_filename(l.filename)
    IN  IF TruthyText(parsed_title)
        THEN [l EXCEPT !.title = parsed_title, !.source.filename = TRUE] ELSE l

\* Mutant: the parsed title is taken but the filename flag is not set.
ApplyFilename_NoFlag(l) ==
    IF TruthyText(l.title) THEN l
    ELSE LET parsed_title == parse_lesson_filename(l.filename)
         IN  IF TruthyText(parsed_title)
             THEN [l EXCEPT !.title = parsed_title] ELSE l

ApplyFilename(l) ==
    IF TruthyText(l.title) THEN l
    ELSE LET parsed_title == parse_lesson_filename(l.filename)
         IN  IF TruthyText(parsed_title)
             THEN [l EXCEPT !.title = parsed_title, !.source.filename = TRUE] ELSE l

\* Mutant: every file of the walk is collected, video or not.
CollectVideos_Unfiltered(course_dir) == Walk(course_dir)

\* The video files below a course directory, as the walk collects them.
CollectVideos(course_dir) == SelectSeq(Walk(course_dir), is_video_file)

\* ------------------------------------------------- the store (database.py)
\* str(path) of a path below the library root: the parts joined by "/".
RECURSIVE PathStr(_)
PathStr(p) == IF p = << >> THEN << >> ELSE << "/" >> \o Head(p) \o PathStr(Tail(p))

\* dict.get(key) of a source dictionary: a missing key counts as false.
SourceGet(source_dict, key) == key \in DOMAIN source_dict /\ source_dict[key]

\* The provenance tokens written to the store.
SourceToken ==
    [ nfo            |-> << "n","f","o" >>,
      file_tags      |-> << "f","i","l","e","-","t","a","g","s" >>,
      filename       |-> << "f","i","l","e","n","a","m","e" >>,
      directory_name |-> << "d","i","r","-","n","a","m","e" >>,
      unknown        |-> << "u","n","k","n","o","w","n" >> ]

\* ', '.join(sources)
RECURSIVE JoinCommaSpace(_)
JoinCommaSpace(sources) ==
    IF Len(sources) = 1 THEN Head(sources)
    ELSE Head(sources) \o << ",", " " >> \o JoinCommaSpace(Tail(sources))

\* Mutant: the tokens are appended in the order of the dictionary's keys as
\* a front end builds it, file-tags before nfo.
_format_source_KeyOrder(source_dict) ==
    LET sources ==
          ( IF SourceGet(source_dict, "file_tags") THEN << SourceToken.file_tags >> ELSE << >> ) \o
          ( IF SourceGet(source_dict, "nfo") THEN << SourceToken.nfo >> ELSE << >> ) \o
          ( IF SourceGet(source_dict, "filename") THEN << SourceToken.filename >> ELSE << >> ) \o
          ( IF SourceGet(source_dict, "directory_name")
            THEN << SourceToken.directory_name >> ELSE << >> )
    IN  IF sources # << >> THEN JoinCommaSpace(sources) ELSE SourceToken.unknown

\* LibraryDatabase._format_source
_format_source(source_dict) ==
    LET sources ==
          ( IF SourceGet(source_dict, "nfo") THEN << SourceToken.nfo >> ELSE << >> ) \o
          ( IF SourceGet(source_dict, "file_tags") THEN << SourceToken.file_tags >> ELSE << >> ) \o
          ( IF SourceGet(source_dict, "filename") THEN << SourceToken.filename >> ELSE << >> ) \o
          ( IF SourceGet(source_dict, "directory_name")
            THEN << SourceToken.directory_name >> ELSE << >> )
    IN  IF sources # << >> THEN JoinCommaSpace(sources) ELSE SourceToken.unknown

\* The three tables after init_db on a new file, and the counters SQLite
\* keeps for their AUTOINCREMENT keys.  The two timestamp columns are left
\* out: nothing reads them.
EmptyDb ==
    [ courses |-> {}, lessons |-> {}, metadata_sources |-> {},
      sqlite_sequence |-> [ courses |-> 0, lessons |-> 0, metadata_sources |-> 0 ] ]

\* Mutant: directory_path is not UNIQUE, so the INSERT never fails.
add_course_NoUnique(store, course_data) ==
    LET source_text == _format_source(course_data.source)
        lastrowid == store.sqlite_sequence.courses + 1
    IN  [ db |-> [ store EXCEPT
                     !.courses = @ \cup
                        { [ id |-> lastrowid, name |-> course_data.name,
                            directory_path |-> PathStr(course_data.dirpath),
                            description |-> course_data.description,
                            instructor |-> course_data.instructor,
                            year |-> course_data.year,
                            metadata_source |-> source_text ] },
                     !.sqlite_sequence.courses = lastrowid ],
          result |-> lastrowid ]

\* LibraryDatabase.add_course: INSERT, and on the IntegrityError of the
\* UNIQUE directory_path UPDATE the row and SELECT its id.
add_course(store, course_data) ==
    LET source_text == _format_source(course_data.source)
        directory_path == PathStr(course_data.dirpath)
        existing == { r \in store.courses : r.directory_path = directory_path }
        lastrowid == store.sqlite_sequence.courses + 1
    IN  IF existing = {}
        THEN [ db |-> [ store EXCEPT
                          !.courses = @ \cup
                             { [ id |-> lastrowid, name |-> course_data.name,
                                 directory_path |-> directory_path,
                                 description |-> course_data.description,
                                 instructor |-> course_data.instructor,
                                 year |-> course_data.year,
                                 metadata_source |-> source_text ] },
                          !.sqlite_sequence.courses = lastrowid ],
               result |-> lastrowid ]
        ELSE [ db |-> [ store EXCEPT
                          !.courses =
                             { IF r \in existing
                               THEN [ r EXCEPT !.name = course_data.name,
                                               !.description = course_data.description,
                                               !.instructor = course_data.instructor,
                                               !.year = course_data.year,
                                               !.metadata_source = source_text ]
                               ELSE r : r \in @ } ],
               result |-> (CHOOSE r \in existing : TRUE).id ]

\* The title_source written beside a new lesson row.
title_source(sources) ==
    IF SourceGet(sources, "nfo") THEN SourceToken.nfo
    ELSE IF SourceGet(sources, "file_tags") THEN SourceToken.file_tags
    ELSE IF SourceGet(sources, "filename") THEN SourceToken.filename
    ELSE SourceToken.unknown

\* The row of metadata_sources written beside a new lesson row.
SourcesRow(id, lesson_id, sources) ==
    [ id |-> id, lesson_id |-> Some(lesson_id), course_id |-> None,
      title_source |-> title_source(sources),
      description_source |-> IF SourceGet(sources, "nfo")
                             THEN SourceToken.nfo ELSE SourceToken.unknown,
      duration_source |-> IF SourceGet(sources, "file_tags")
                          THEN SourceToken.file_tags ELSE SourceToken.unknown ]

\* LibraryDatabase.add_lesson: INSERT the lesson and its metadata_sources
\* row, and on the IntegrityError of the UNIQUE file_path UPDATE the lesson
\* row (title, duration, description, metadata_source) and SELECT its id.
add_lesson(store, course_id, lesson_data) ==
    LET source_text == _format_source(lesson_data.source)
        file_path == PathStr(lesson_data.filepath)
        existing == { r \in store.lessons : r.file_path = file_path }
        lesson_id == store.sqlite_sequence.lessons + 1
        sources_id == store.sqlite_sequence.metadata_sources + 1
    IN  IF existing = {}
        THEN [ db |-> [ store EXCEPT
                          !.lessons = @ \cup
                             { [ id |-> lesson_id, course_id |-> course_id,
                                 title |-> lesson_data.title,
                                 file_path |-> file_path,
                                 file_name |-> lesson_data.filename,
                                 duration_seconds |-> lesson_data.duration,
                                 description |-> lesson_data.description,
                                 metadata_source |-> source_text ] },
                          !.metadata_sources = @ \cup
                             { SourcesRow(sources_id, lesson_id, lesson_data.source) },
                          !.sqlite_sequence.lessons = lesson_id,
                          !.sqlite_sequence.metadata_sources = sources_id ],
               result |-> lesson_id ]
        ELSE [ db |-> [ store EXCEPT
                          !.lessons =
                             { IF r \in existing
                               THEN [ r EXCEPT !.title = lesson_data.title,
                                               !.duration_seconds = lesson_data.duration,
                                               !.description = lesson_data.description,
                                               !.metadata_source = source_text ]
                               ELSE r : r \in @ } ],
               result |-> (CHOOSE r \in existing : TRUE).id ]

\* LibraryDatabase.get_course_lessons: the rows of a course (ORDER BY id is
\* recovered from the id of each row).
get_course_lessons(store, course_id) == { r \in store.lessons : r.course_id = course_id }

\* LibraryDatabase.clear_all: the three DELETEs.  The AUTOINCREMENT counters
\* are kept by SQLite.
clear_all(store) ==
    [ store EXCEPT !.courses = {}, !.lessons = {}, !.metadata_sources = {} ]

\* ------------------------------------------- state outside a single scan
\* No call of the store has been made.
NoCall == [ op |-> "none", n |-> 0 ]
\* The store is not in use.
DbIdle ==
    /\ db = EmptyDb
    /\ call = NoCall
    /\ first_id = [ courses |-> << >>, lessons |-> << >> ]
\* No front end is running.
FrontIdle ==
    /\ shell = "none"
    /\ scan_result = << >>
    /\ scan_button = FALSE
    /\ stop_button = FALSE
    /\ workers = << >>
\* scan_directory has not been called before.
NoRescan == previous = << >>

\* ---------------------------------------------------------------- actions
\* What scan_directory never writes: the library and its environment, the
\* variables of the direct call of the parser and the front end's flag.
static == << fs, root_exists, MediaInfo, listing, parser_arg, returned, scanning,
            previous, db, call, first_id, shell, scan_result, scan_button, stop_button,
            workers >>

\* Mutant: without the exists() test, iterdir() raises on the missing root.
RootMissing_Raises ==
    /\ pc = "start" /\ ~root_exists
    /\ pc' = "raised"
    /\ UNCHANGED << static, course_dirs, video_files, course, lesson, courses >>

\* library_path does not exist: warn and return the empty list.
RootMissing ==
    /\ pc = "start" /\ ~root_exists
    /\ pc' = "done"
    /\ UNCHANGED << static, course_dirs, video_files, course, lesson, courses >>

\* sorted(library_path.iterdir())
ScanStart ==
    /\ pc = "start" /\ root_exists
    /\ course_dirs' = SortedPaths(Listed(Children(<<>>)))
    /\ pc' = "next_dir"
    /\ UNCHANGED << static, video_files, course, lesson, courses >>

\* if not course_dir.is_dir(): continue
SkipNonDir ==
    /\ pc = "next_dir" /\ course_dirs # <<>>
    /\ ~IsDir(Head(course_dirs))
    /\ course_dirs' = Tail(course_dirs)
    /\ UNCHANGED << static, pc, video_files, course, lesson, courses >>

\* if not video_files: continue
SkipNoVideo ==
    /\ pc = "next_dir" /\ course_dirs # <<>>
    /\ IsDir(Head(course_dirs))
    /\ CollectVideos(Head(course_dirs)) = <<>>
    /\ course_dirs' = Tail(course_dirs)
    /\ UNCHANGED << static, pc, video_files, course, lesson, courses >>

\* Course(dirpath=course_dir, name=f"{course_name}-fromdir")
CreateCourse ==
    /\ pc = "next_dir" /\ course_dirs # <<>>
    /\ IsDir(Head(course_dirs))
    /\ CollectVideos(Head(course_dirs)) # <<>>
    /\ course' = [ Course(Head(course_dirs),
                          PathName(Head(course_dirs)) \o FromDirSuffix)
                   EXCEPT !.source.directory_name = TRUE ]
    /\ video_files' = SortedPaths(CollectVideos(Head(course_dirs)))
    /\ pc' = "course_nfo"
    /\ UNCHANGED << static, course_dirs, lesson, courses >>

\* tvshow_nfo = find_nfo_file(course_dir) and what follows from it
CourseSidecar ==
    /\ pc = "course_nfo"
    /\ LET tvshow_nfo == find_nfo_file(course.dirpath)
       IN  course' = IF IsSome(tvshow_nfo)
                     THEN ApplyTvshowNfo(course, parse_tvshow_nfo(fs[Val(tvshow_nfo)].xml))
                     ELSE course
    /\ pc' = "next_video"
    /\ UNCHANGED << static, course_dirs, video_files, lesson, courses >>

\* lesson = Lesson(filepath=video_path, filename=video_path.name)
CreateLesson ==
    /\ pc = "next_video" /\ video_files # <<>>
    /\ lesson' = Lesson(Head(video_files), PathName(Head(video_files)))
    /\ pc' = "lesson_nfo"
    /\ UNCHANGED << static, course_dirs, video_files, course, courses >>

LessonSidecar ==
    /\ pc = "lesson_nfo"
    /\ lesson' = ApplyEpisodeNfo(lesson, LessonNfoData(lesson.filepath))
    /\ pc' = "lesson_media"
    /\ UNCHANGED << static, course_dirs, video_files, course, courses >>

\* if MediaInfo: media_data = extract_media_metadata(video_path) ...
LessonContainer ==
    /\ pc = "lesson_media"
    /\ lesson' = IF MediaInfo
                 THEN ApplyMedia(lesson, extract_media_metadata(fs[lesson.filepath].media))
                 ELSE lesson
    /\ pc' = "lesson_filename"
    /\ UNCHANGED << static, course_dirs, video_files, course, courses >>

LessonFilename ==
    /\ pc = "lesson_filename"
    /\ lesson' = ApplyFilename(lesson)
    /\ pc' = "lesson_append"
    /\ UNCHANGED << static, course_dirs, video_files, course, courses >>

\* course.lessons.append(lesson)
AppendLesson ==
    /\ pc = "lesson_append"
    /\ course' = [course EXCEPT !.lessons = Append(@, lesson)]
    /\ video_files' = Tail(video_files)
    /\ lesson' = NoLesson
    /\ pc' = "next_video"
    /\ UNCHANGED << static, course_dirs, courses >>

\* courses.append(course)
AppendCourse ==
    /\ pc = "next_video" /\ video_files = <<>>
    /\ courses' = Append(courses, course)
    /\ course' = NoCourse
    /\ course_dirs' = Tail(course_dirs)
    /\ pc' = "next_dir"
    /\ UNCHANGED << static, video_files, lesson >>

\* return courses
Return ==
    /\ pc = "next_dir" /\ course_dirs = <<>>
    /\ pc' = "done"
    /\ UNCHANGED << static, course_dirs, video_files, course, lesson, courses >>

\* ------------------------------------------------------ initial libraries
DirAlg == << "a","l","g" >>
DirBio == << "b","i","o" >>
DirSub == << "s","u","b" >>
FnFactoring == << "L","e","s","s","o","n"," ","2"," ","-"," ",
                  "F","a","c","t","o","r","i","n","g",".","m","p","4" >>
FnIntro == << "I","n","t","r","o",".","M","K","V" >>
FnDigits == << "1","2",".","m","p","4" >>
FnBlank == << "L","e","s","s","o","n"," ","5"," ",".","m","p","4" >>
FnNotes == << "n","o","t","e","s",".","t","x","t" >>
NfoIntro == << "I","n","t","r","o",".","n","f","o" >>
NfoTvshow == << "t","v","s","h","o","w",".","n","f","o" >>

TxtAlgebra == << "A","l","g","e","b","r","a"," ","I" >>
TxtSets == << "S","e","t","s" >>
TxtPlot == << "P","l","o","t" >>
TxtTag == << "T","a","g" >>
TxtEuler == << "E","u","l","e","r" >>
TxtYear == << "1","9","9","9" >>

\* Elements a sidecar document is built from.
ElemPalette ==
    { Elem("title", Some(TxtSets)), Elem("plot", Some(TxtPlot)),
      Elem("runtime", Some(<< "4","5" >>)), Elem("runtime", Some(<< "0" >>)),
      Elem("runtime", Some(<< "-","1" >>)), Elem("runtime", Some(<< "x" >>)) }
RichDocs ==
    { Malformed } \cup
    { Document(e) : e \in UNION { [1..n -> ElemPalette] : n \in 0..MaxElems } }

\* Container metadata of a video, durations in milliseconds.
RichMedia ==
    { ProbeFails,
      Probe(<< >>),
      Probe(<< Track("General", None, None) >>),
      Probe(<< Track("General", Some(0), Some(TxtTag)) >>),
      Probe(<< Track("General", Some(999), Some(<<>>)) >>),
      Probe(<< Track("General", Some(125000), None) >>),
      Probe(<< Track("General", Some(125999), Some(TxtTag)) >>),
      Probe(<< Track("Video", Some(3000), Some(TxtPlot)),
               Track("General", Some(125000), Some(TxtTag)) >>) }

RichNames == { FnFactoring, FnDigits, FnBlank }

\* One course holding one video, with or without a sidecar named after it.
\* Without the capability the container metadata is never read.
RichInit ==
    \E name \in RichNames, mi \in BOOLEAN,
       sidecar \in { None } \cup { Some(d) : d \in RichDocs } :
      \E media \in IF mi THEN RichMedia
                   ELSE { Probe(<< Track("General", Some(125000), Some(TxtTag)) >>) } :
        /\ fs = [ p \in { << DirAlg, name >> } \cup
                        ( IF IsSome(sidecar)
                          THEN { << DirAlg, PathStem(name) \o NfoSuffix >> } ELSE {} )
                  |-> IF p = << DirAlg, name >> THEN File(Malformed, media)
                      ELSE File(Val(sidecar), ProbeFails) ]
        /\ MediaInfo = mi
        /\ listing = "asc"
        /\ root_exists = TRUE

CourseDoc ==
    Document(<< Elem("title", Some(TxtAlgebra)), Elem("plot", Some(TxtPlot)),
                Elem("director", Some(TxtEuler)), Elem("year", Some(TxtYear)) >>)
LessonDoc ==
    Document(<< Elem("title", Some(TxtSets)), Elem("runtime", Some(<< "4","5" >>)),
                Elem("plot", Some(TxtPlot)) >>)
PlotDoc == Document(<< Elem("plot", Some(TxtPlot)) >>)

LayoutVideoPaths ==
    { << DirAlg, FnIntro >>, << DirAlg, FnFactoring >>,
      << DirAlg, DirSub, FnIntro >>, << DirBio, FnIntro >> }
LayoutNfoPaths ==
    { << DirAlg, NfoIntro >>, << DirAlg, NfoTvshow >>, << DirAlg, DirSub, NfoIntro >> }
LayoutOtherPaths == { << DirBio, FnNotes >>, << FnNotes >> }
\* The contents tried for each file of a layout.
LayoutDocs(p) ==
    IF PathName(p) = NfoTvshow THEN { Malformed, CourseDoc, PlotDoc }
    ELSE IF Len(p) = 2 THEN { Malformed, LessonDoc, PlotDoc }
    ELSE { Malformed, LessonDoc }
LayoutMedia(p) ==
    { Probe(<< Track("General", None, None) >>) } \cup
    ( IF p = << DirAlg, FnIntro >>
      THEN { Probe(<< Track("General", Some(125000), Some(TxtTag)) >>) } ELSE {} )

\* Up to two courses, videos at two depths, sidecars beside them or not.
LayoutInit ==
    \E V \in { S \in SUBSET LayoutVideoPaths : Cardinality(S) <= MaxVideos },
       N \in { S \in SUBSET LayoutNfoPaths : Cardinality(S) <= MaxNfos },
       O \in { {}, LayoutOtherPaths },
       lst \in { "asc", "desc" } :
      \E media \in { f \in [ V -> UNION { LayoutMedia(p) : p \in V } ] :
                       \A p \in V : f[p] \in LayoutMedia(p) },
         doc \in { f \in [ N -> UNION { LayoutDocs(p) : p \in N } ] :
                       \A p \in N : f[p] \in LayoutDocs(p) } :
        /\ fs = [ p \in V \cup N \cup O |->
                    IF p \in V THEN File(Malformed, media[p])
                    ELSE IF p \in N THEN File(doc[p], ProbeFails)
                    ELSE File(Malformed, ProbeFails) ]
        /\ MediaInfo = TRUE
        /\ listing = lst
        /\ root_exists = TRUE

\* The library root is missing.
MissingInit ==
    /\ fs = << >>
    /\ MediaInfo \in BOOLEAN
    /\ listing = "asc"
    /\ root_exists = FALSE

Init ==
    /\ RichInit \/ LayoutInit \/ MissingInit
    /\ pc = "start"
    /\ course_dirs = << >>
    /\ video_files = << >>
    /\ course = NoCourse
    /\ lesson = NoLesson
    /\ courses = << >>
    /\ parser_arg = << >>
    /\ returned = << >>
    /\ scanning = TRUE
    /\ NoRescan /\ DbIdle /\ FrontIdle

Next ==
    \/ RootMissing
    \/ ScanStart
    \/ SkipNonDir
    \/ SkipNoVideo
    \/ CreateCourse
    \/ CourseSidecar
    \/ CreateLesson
    \/ LessonSidecar
    \/ LessonContainer
    \/ LessonFilename
    \/ AppendLesson
    \/ AppendCourse
    \/ Return

Spec == Init /\ [][Next]_vars

\* ------------------------------------------------------------ properties
\* scan_directory has returned; courses is its result.
Done == pc = "done"
\* The lessons of the courses emitted so far.
Lessons ==
    UNION { { courses[i].lessons[j] : j \in 1..Len(courses[i].lessons) } :
              i \in 1..Len(courses) }

\* What the sources of a lesson hold: the parse of its chosen sidecar and
\* the container metadata (absent without the capability).
SidecarOf(l) ==
    IF IsSome(LessonNfoData(l.filepath)) THEN Val(LessonNfoData(l.filepath))
    ELSE [title |-> None, description |-> None, duration |-> None]
ContainerOf(l) ==
    IF MediaInfo /\ IsSome(extract_media_metadata(fs[l.filepath].media))
    THEN Val(extract_media_metadata(fs[l.filepath].media))
    ELSE [duration |-> None, title |-> None]

OnlyFlags(source, flags) ==
    /\ source.nfo = ("nfo" \in flags)
    /\ source.file_tags = ("file_tags" \in flags)
    /\ source.filename = ("filename" \in flags)
    /\ source.directory_name = ("directory_name" \in flags)

TxtFactoring == << "F","a","c","t","o","r","i","n","g" >>

\* C1: a lesson whose chosen sidecar supplies a title has that title,
\* whatever the container and the filename offer.
C1_SidecarTitleWins ==
    Done =>
        \A l \in Lessons :
            IsSome(SidecarOf(l).title) => l.title = SidecarOf(l).title

C1_Witness ==
    Done /\ \E l \in Lessons :
        /\ SidecarOf(l).title = Some(TxtSets)
        /\ ContainerOf(l).title = Some(TxtTag)
        /\ parse_lesson_filename(l.filename) = Some(TxtFactoring)
        /\ l.title = Some(TxtSets)

\* C2: the end-to-end scenario: one course directory holding a course sidecar
\* naming "Algebra I", a video with a sidecar of its own stem supplying a
\* title, and "Lesson 2 - Factoring.mp4" without sidecar or container data,
\* gives one Course "Algebra I" with two Lessons, the first titled by its
\* sidecar (only the sidecar flag), the second "Factoring" (only the filename
\* flag).
AlgebraScenario ==
    /\ root_exists
    /\ DOMAIN fs = { << DirAlg, NfoTvshow >>, << DirAlg, FnIntro >>,
                     << DirAlg, NfoIntro >>, << DirAlg, FnFactoring >> }
    /\ fs[<< DirAlg, NfoTvshow >>].xml = CourseDoc
    /\ fs[<< DirAlg, NfoIntro >>].xml = LessonDoc
    /\ fs[<< DirAlg, FnFactoring >>].media = Probe(<< Track("General", None, None) >>)

C2_EndToEnd ==
    (AlgebraScenario /\ Done) =>
        /\ Len(courses) = 1
        /\ courses[1].name = TxtAlgebra
        /\ Len(courses[1].lessons) = 2
        /\ courses[1].lessons[1].title = Some(TxtSets)
        /\ OnlyFlags(courses[1].lessons[1].source, { "nfo" })
        /\ courses[1].lessons[2].title = Some(TxtFactoring)
        /\ OnlyFlags(courses[1].lessons[2].source, { "filename" })

\* C3: the duration of a lesson is the sidecar's whenever the sidecar
\* supplies a runtime that parses as an integer (r minutes give r*60
\* seconds), whatever the container reports; else the container's.
C3_SidecarDurationFirst ==
    Done =>
        \A l \in Lessons :
            IsSome(SidecarOf(l).duration) => l.duration = SidecarOf(l).duration

\* Which source the code took a lesson's duration from.
DurationFromSidecar(l) ==
    IsSome(l.duration) /\ TruthyInt(SidecarOf(l).duration)
DurationFromContainer(l) ==
    IsSome(l.duration) /\ ~TruthyInt(SidecarOf(l).duration)
\* C4: the source that supplied the duration of a lesson has its flag set.
C4_DurationProvenance ==
    Done =>
        \A l \in Lessons :
            /\ DurationFromSidecar(l) => l.source.nfo
            /\ DurationFromContainer(l) => l.source.file_tags

\* C5: without a sidecar title, a container title becomes the title, with
\* the file_tags flag set and the filename flag clear.
C5_ContainerTitle ==
    Done =>
        \A l \in Lessons :
            (~IsSome(SidecarOf(l).title) /\ IsSome(ContainerOf(l).title)) =>
                /\ l.title = ContainerOf(l).title
                /\ l.source.file_tags
                /\ ~l.source.filename

C5_Witness ==
    Done /\ \E l \in Lessons :
        /\ ~IsSome(SidecarOf(l).title)
        /\ ContainerOf(l).title = Some(TxtTag)
        /\ parse_lesson_filename(l.filename) = Some(TxtFactoring)
        /\ l.title = Some(TxtTag)

\* C6: with neither a sidecar nor a container title, a title parsed from
\* the filename becomes the title with exactly the filename flag set; when
\* the parser gives none (None, or a text that is empty), the title stays
\* absent and no flag is set.
C6_FilenameTitle ==
    Done =>
        \A l \in Lessons :
            (~IsSome(SidecarOf(l).title) /\ ~IsSome(ContainerOf(l).title)) =>
                LET parsed == parse_lesson_filename(l.filename)
                IN  IF TruthyText(parsed)
                    THEN /\ l.title = parsed
                         /\ OnlyFlags(l.source, { "filename" })
                    ELSE /\ l.title = None
                         /\ OnlyFlags(l.source, {})

C6_Witness ==
    /\ \E l \in Lessons :
         /\ ~IsSome(SidecarOf(l).title) /\ ~IsSome(ContainerOf(l).title)
         /\ l.title = Some(TxtFactoring)
         /\ OnlyFlags(l.source, { "filename" })
    /\ pc = "done"

\* The parser gives none and the title stays absent.
C6_WitnessAbsent ==
    Done /\ \E l \in Lessons :
        /\ ~IsSome(SidecarOf(l).title) /\ ~IsSome(ContainerOf(l).title)
        /\ parse_lesson_filename(l.filename) = None
        /\ l.title = None

\* A step that stays within the pass of one lesson.
SamePass == lesson.filepath # << >> /\ lesson'.filepath = lesson.filepath
\* C7: within the resolution pass of one lesson a field that is set is
\* never changed by a later step: each field is assigned at most once.
C7_WriteOnce ==
    [][ SamePass =>
          /\ IsSome(lesson.title) => lesson'.title = lesson.title
          /\ IsSome(lesson.duration) => lesson'.duration = lesson.duration
          /\ IsSome(lesson.description) => lesson'.description = lesson.description
      ]_vars

\* A pass in which the sidecar has set title and duration and the container,
\* consulted next, holds other values for both.
C7_Witness ==
    /\ pc = "lesson_filename"
    /\ lesson.title = Some(TxtSets)
    /\ lesson.duration = Some(45 * SecondsPerMinute)
    /\ ContainerOf(lesson).title = Some(TxtTag)
    /\ ContainerOf(lesson).duration = Some(125)

\* What the course-level sidecar of a course holds.
CourseSidecarOf(c) ==
    LET tvshow_nfo == find_nfo_file(c.dirpath)
    IN  IF IsSome(tvshow_nfo) /\ IsSome(parse_tvshow_nfo(fs[Val(tvshow_nfo)].xml))
        THEN Val(parse_tvshow_nfo(fs[Val(tvshow_nfo)].xml))
        ELSE [name |-> None, description |-> None, instructor |-> None, year |-> None]

\* C8: an emitted course is named by its course-level sidecar when that
\* supplies a name (sidecar flag set, directory_name cleared), else by the
\* directory name plus the marker suffix (directory_name set, sidecar flag
\* clear); the name is never empty.
C8_CourseName ==
    Done =>
        \A c \in Range(courses) :
            /\ IF IsSome(CourseSidecarOf(c).name)
               THEN /\ c.name = Val(CourseSidecarOf(c).name)
                    /\ c.source.nfo
                    /\ ~c.source.directory_name
               ELSE /\ c.name = PathName(c.dirpath) \o << "-","f","r","o","m","d","i","r" >>
                    /\ c.source.directory_name
                    /\ ~c.source.nfo
            /\ c.name # << >>

\* Both ways of naming in one result: a course named by its sidecar and a
\* course named after its directory.
C8_Witness ==
    /\ pc = "done"
    /\ \E c \in Range(courses) : c.name = TxtAlgebra /\ c.source.nfo
    /\ \E c \in Range(courses) :
         c.name = << "b","i","o","-","f","r","o","m","d","i","r" >>

\* A name ends in an allow-listed video extension, letter case ignored.
HasVideoExtension(name) ==
    \E ext \in { << "m","p","4" >>, << "m","k","v" >>, << "a","v","i" >>,
                 << "m","o","v" >>, << "f","l","v" >>, << "w","m","v" >>,
                 << "w","e","b","m" >>, << "m","4","v" >> } :
        /\ Len(name) > Len(ext) + 1
        /\ Lower(SubSeq(name, Len(name) - Len(ext), Len(name))) = << "." >> \o ext

\* C9: a Course is emitted only for an immediate child directory of the
\* root that holds a video file at some depth, and it has lessons.
C9_CourseHasVideo ==
    Done =>
        \A c \in Range(courses) :
            /\ Len(c.dirpath) = 1
            /\ \E p \in DOMAIN fs : IsPrefix(c.dirpath, p) /\ HasVideoExtension(PathName(p))
            /\ c.lessons # << >>

\* A finished scan of a library with a directory of non-video files only.
C9_Witness ==
    /\ pc = "done"
    /\ << DirBio, FnNotes >> \in DOMAIN fs
    /\ \A p \in DOMAIN fs : IsPrefix(<< DirBio >>, p) => ~HasVideoExtension(PathName(p))
    /\ Len(courses) = 1
    /\ \A c \in Range(courses) : c.dirpath # << DirBio >>

\* The positions of the lessons in the result, and the file at each.
Slots ==
    UNION { { << i, j >> : j \in 1..Len(courses[i].lessons) } : i \in 1..Len(courses) }
SlotPath(s) == courses[s[1]].lessons[s[2]].filepath
\* C10: after a scan every video file below a child directory D of the root
\* is the file of exactly one Lesson, in the Course of D, and no two lessons
\* of the result have the same file path.
C10_EachVideoOnce ==
    Done =>
        /\ \A p \in DOMAIN fs :
             (Len(p) >= 2 /\ HasVideoExtension(PathName(p))) =>
                /\ Cardinality({ s \in Slots : SlotPath(s) = p }) = 1
                /\ \A s \in Slots : SlotPath(s) = p => courses[s[1]].dirpath = << p[1] >>
        /\ \A s, t \in Slots : SlotPath(s) = SlotPath(t) => s = t

\* A finished scan of two courses, one with a video in a subdirectory.
C10_Witness ==
    /\ pc = "done"
    /\ { << DirAlg, DirSub, FnIntro >>, << DirBio, FnIntro >> } \subseteq DOMAIN fs
    /\ Len(courses) = 2
    /\ Cardinality(Slots) = 2

\* The sidecar document of a video by the discovery rule: the file named
\* after the video's stem when there is one, else the *.nfo file of the
\* video's directory that the listing gives first, else none.
ChosenSidecar(video_path) ==
    LET exact == PathParent(video_path) \o << PathStem(PathName(video_path)) \o NfoSuffix >>
        beside == { q \in DOMAIN fs : /\ PathParent(q) = PathParent(video_path)
                                      /\ EndsWith(PathName(q), NfoSuffix) }
    IN  IF exact \in DOMAIN fs THEN Some(exact)
        ELSE IF beside = {} THEN None
        ELSE Some(CHOOSE q \in beside :
                    \A r \in beside \ { q } :
                        IF listing = "asc" THEN PathLess(q, r) ELSE PathLess(r, q))
\* What that one document supplies (nothing when it fails to parse).
ChosenFields(video_path) ==
    LET chosen == ChosenSidecar(video_path)
        data == IF IsSome(chosen) THEN parse_episode_nfo(fs[Val(chosen)].xml) ELSE None
    IN  IF IsSome(data) THEN Val(data)
        ELSE [title |-> None, description |-> None, duration |-> None]

\* C11: the sidecar of a lesson is the document named after the video's
\* stem, else the first sidecar document of the video's directory; it is the
\* only document consulted: the sidecar flag, the description and a
\* sidecar title or duration of the lesson come from that document alone, also
\* when it fails to parse or supplies nothing.
C11_OneSidecar ==
    Done =>
        \A l \in Lessons :
            LET d == ChosenFields(l.filepath)
            IN  /\ l.source.nfo = IsSome(d.title)
                /\ l.source.nfo => l.title = d.title
                /\ l.description = d.description
                /\ TruthyInt(d.duration) => l.duration = d.duration
                /\ ~TruthyInt(d.duration) =>
                       l.duration \in { None, ContainerOf(l).duration }

\* One directory where the stem-named document of one video is malformed
\* beside a course document with a title (the video takes nothing from it),
\* and a second video without a document of its own takes the first listed.
C11_Witness ==
    /\ Done
    /\ << DirAlg, NfoIntro >> \in DOMAIN fs
    /\ fs[<< DirAlg, NfoIntro >>].xml = Malformed
    /\ << DirAlg, NfoTvshow >> \in DOMAIN fs
    /\ fs[<< DirAlg, NfoTvshow >>].xml = CourseDoc
    /\ \E l \in Lessons : l.filepath = << DirAlg, FnIntro >> /\ ~l.source.nfo
    /\ \E l \in Lessons :
         /\ l.filepath = << DirAlg, FnFactoring >>
         /\ l.source.nfo /\ l.title = Some(TxtAlgebra)

\* The duration in milliseconds the container reports for a lesson's file:
\* that of the first General track read by the capability.
ReportedMillis(l) ==
    LET media == fs[l.filepath].media
        general == { i \in 1..Len(media.tracks) : media.tracks[i].track_type = "General" }
    IN  IF MediaInfo /\ media.ok /\ general # {}
        THEN media.tracks[SetMin(general)].duration
        ELSE None

\* C12: when the sidecar supplies no numeric runtime and the container
\* reports d milliseconds (d >= 0), the duration of the lesson is d divided
\* by 1000, the remainder dropped.
C12_ContainerSeconds ==
    Done =>
        \A l \in Lessons :
            ( /\ ~IsSome(SidecarOf(l).duration)
              /\ IsSome(ReportedMillis(l))
              /\ Val(ReportedMillis(l)) >= 0 ) =>
                l.duration = Some(Val(ReportedMillis(l)) \div 1000)

\* The same for reported durations of at least one second.
C12_WholeSeconds ==
    Done =>
        \A l \in Lessons :
            ( /\ ~IsSome(SidecarOf(l).duration)
              /\ IsSome(ReportedMillis(l))
              /\ Val(ReportedMillis(l)) >= 1000 ) =>
                l.duration = Some(Val(ReportedMillis(l)) \div 1000)

\* C13: after a scan the duration of every lesson is absent or a
\* non-negative number of seconds.
C13_DurationNonNegative ==
    Done => \A l \in Lessons : IsSome(l.duration) => Val(l.duration) >= 0

\* ------------------------------------------- direct calls of the parser
\* Most tokens a generated file name is put together from.
MaxTokens == 4

TokLesson == << "L","e","s","s","o","n" >>
NameTokens ==
    { TokLesson, << "5" >>, << " " >>, << "-" >>, << ":" >>, << "." >>, << "T" >> }
ExtMp4 == << ".","m","p","4" >>
\* The file names of the examples in the parser's documentation, and other
\* letter cases of the lesson marker.
ExampleNames ==
    { << "L","e","s","s","o","n"," ","5"," ","-"," ","I","n","t","r","o"," ",
         "t","o"," ","S","e","t","s",".","m","p","4" >>,
      << "0","5"," ","-"," ","V","a","r","i","a","b","l","e","s",".","m","k","v" >>,
      << "O","v","e","r","v","i","e","w",".","m","p","4" >>,
      FnDigits,
      << "L","E","S","S","O","N","\t","1","2",":","T",".","m","p","4" >>,
      << "l","e","s","s","o","n"," ","5","T",".","m","p","4" >> }
GeneratedNames ==
    { Concat(t) \o ext :
        t \in UNION { [1..n -> NameTokens] : n \in 0..MaxTokens },
        ext \in { << >>, ExtMp4 } }
\* A bare file name: not empty and not a directory reference.
ParserNames ==
    (GeneratedNames \cup ExampleNames) \ { << >>, << "." >>, << ".","." >> }

ParserInit ==
    /\ parser_arg \in ParserNames
    /\ returned = << >>
    /\ scanning = FALSE
    /\ fs = << >>
    /\ root_exists = FALSE
    /\ MediaInfo = FALSE
    /\ listing = "asc"
    /\ pc = "parser"
    /\ course_dirs = << >>
    /\ video_files = << >>
    /\ course = NoCourse
    /\ lesson = NoLesson
    /\ courses = << >>
    /\ NoRescan /\ DbIdle /\ FrontIdle

\* parse_lesson_filename(parser_arg) is called and returns.
ParseFilename ==
    /\ pc = "parser" /\ returned = << >>
    /\ returned' = << parse_lesson_filename(parser_arg) >>
    /\ UNCHANGED << fs, root_exists, MediaInfo, listing, pc, course_dirs,
                    video_files, course, lesson, courses, parser_arg, scanning,
                    previous, db, call, first_id, shell, scan_result, scan_button,
                    stop_button, workers >>

ParserNext == ParseFilename

ParserSpec == ParserInit /\ [][ParserNext]_vars

\* C14: parse_lesson_filename never returns an empty or whitespace-only
\* text: a candidate that is empty after trimming gives None.
C14_NeverEmpty ==
    returned # << >> =>
        (IsSome(returned[1]) => Strip(Val(returned[1])) # << >>)

\* The first position from i on that holds no character of class C (one past
\* the end when there is none), and the text from a position on.
FirstNot(s, i, C) ==
    SetMin({ k \in i..(Len(s) + 1) : k = Len(s) + 1 \/ s[k] \notin C })
From(s, i) == SubSeq(s, i, Len(s))
\* The stem begins with the lesson marker (any letter case), whitespace and
\* a digit.
StartsLessonNumber(s) ==
    /\ Len(s) > 6
    /\ Lower(SubSeq(s, 1, 6)) = << "l","e","s","s","o","n" >>
    /\ FirstNot(s, 7, WS) > 7
    /\ FirstNot(s, 7, WS) <= Len(s)
    /\ s[FirstNot(s, 7, WS)] \in Digits
\* What follows the integer that starts at position i: whitespace, one
\* separator of seps when present, and then the remainder.
RemainderAfterNumber(s, i, seps) ==
    LET k == FirstNot(s, FirstNot(s, i, Digits), WS)
    IN  IF k <= Len(s) /\ s[k] \in seps THEN From(s, k + 1) ELSE From(s, k)
\* The title the rules give for a stem, as << title >>, where they decide
\* it: the integer is the whole run of digits, the remainder is trimmed;
\* << >> where the remainder is blank behind whitespace or a separator.
TitleByRules(s) ==
    IF StartsLessonNumber(s)
    THEN LET i == FirstNot(s, 7, WS)
             remainder == Strip(RemainderAfterNumber(s, i, { "-", ":" }))
         IN  IF remainder # << >> THEN << Some(remainder) >>
             ELSE IF FirstNot(s, i, Digits) = Len(s) + 1 THEN << Some(Strip(s)) >>
             ELSE << >>
    ELSE IF s # << >> /\ s[1] \in Digits
    THEN LET remainder == Strip(RemainderAfterNumber(s, 1, { "-", ":", "." }))
         IN  IF remainder # << >> THEN << Some(remainder) >>
             ELSE IF FirstNot(s, 1, Digits) = Len(s) + 1 THEN << None >>
             ELSE << >>
    ELSE << IF Strip(s) # << >> THEN Some(Strip(s)) ELSE None >>

\* C15: the parser applies its rules in order to the name without its
\* extension: lesson marker, integer, optional separator and remainder give
\* the remainder; integer, separator and remainder give the remainder; a
\* stem without numeric prefix gives the whole stem; a stem of digits only
\* gives None.
C15_RulesInOrder ==
    returned # << >> =>
        LET want == TitleByRules(PathStem(parser_arg))
        IN  want # << >> => returned[1] = want[1]

\* The four documented examples.
C15_Examples ==
    returned # << >> =>
        /\ parser_arg = << "L","e","s","s","o","n"," ","5"," ","-"," ","I","n","t","r","o"," ",
                           "t","o"," ","S","e","t","s",".","m","p","4" >>
             => returned[1] = Some(<< "I","n","t","r","o"," ","t","o"," ","S","e","t","s" >>)
        /\ parser_arg = << "0","5"," ","-"," ","V","a","r","i","a","b","l","e","s",".","m","k","v" >>
             => returned[1] = Some(<< "V","a","r","i","a","b","l","e","s" >>)
        /\ parser_arg = << "O","v","e","r","v","i","e","w",".","m","p","4" >>
             => returned[1] = Some(<< "O","v","e","r","v","i","e","w" >>)
        /\ parser_arg = FnDigits => returned[1] = None

\* The course-level sidecar document by the discovery rule: the *.nfo file
\* directly in the course directory that the listing gives first; and what
\* it supplies (nothing when there is none or it fails to parse).
ChosenCourseFields(c) ==
    LET beside == { q \in DOMAIN fs : /\ PathParent(q) = c.dirpath
                                      /\ EndsWith(PathName(q), NfoSuffix) }
        first == CHOOSE q \in beside :
                    \A r \in beside \ { q } :
                        IF listing = "asc" THEN PathLess(q, r) ELSE PathLess(r, q)
    IN  IF beside # {} /\ IsSome(parse_tvshow_nfo(fs[first].xml))
        THEN Val(parse_tvshow_nfo(fs[first].xml))
        ELSE [name |-> None, description |-> None, instructor |-> None, year |-> None]

\* C16: the description of a lesson and the description, instructor and
\* year of a course are set only from the entity's chosen sidecar document,
\* and then hold its value.
C16_SidecarOnly ==
    Done =>
        /\ \A l \in Lessons :
             IsSome(l.description) => l.description = ChosenFields(l.filepath).description
        /\ \A c \in Range(courses) :
             LET d == ChosenCourseFields(c)
             IN  /\ IsSome(c.description) => c.description = d.description
                 /\ IsSome(c.instructor) => c.instructor = d.instructor
                 /\ IsSome(c.year) => c.year = d.year

\* A course with all three fields from its sidecar, holding a lesson with a
\* sidecar description whose container has a title, beside a course without
\* sidecar whose fields are all absent.
C16_Witness ==
    /\ Done
    /\ \E c \in Range(courses) :
         /\ c.description = Some(TxtPlot)
         /\ c.instructor = Some(TxtEuler)
         /\ c.year = Some(TxtYear)
         /\ \E j \in 1..Len(c.lessons) :
              /\ c.lessons[j].description = Some(TxtPlot)
              /\ ContainerOf(c.lessons[j]).title = Some(TxtTag)
    /\ \E c \in Range(courses) :
         /\ c.description = None /\ c.instructor = None /\ c.year = None
         /\ \E j \in 1..Len(c.lessons) : c.lessons[j].description = None

\* C17: a field given its value by a source has that source's flag set: a
\* lesson with a description, and a course with a description, instructor or
\* year (all of them sidecar-only fields), has the sidecar flag set.
C17_FlagOfEveryField ==
    Done =>
        /\ \A l \in Lessons : IsSome(l.description) => l.source.nfo
        /\ \A c \in Range(courses) :
             (IsSome(c.description) \/ IsSome(c.instructor) \/ IsSome(c.year))
                => c.source.nfo

\* ------------------------------------------------ a scan that is stopped
\* The libraries of a scan during which the user may press Stop: up to two
\* courses with or without a course sidecar, with or without non-video
\* entries, and the missing root.
CancelInit ==
    /\ \/ \E V \in { S \in SUBSET LayoutVideoPaths : Cardinality(S) <= MaxVideos },
              N \in SUBSET { << DirAlg, NfoTvshow >> },
              O \in { {}, LayoutOtherPaths } :
             /\ fs = [ p \in V \cup N \cup O |->
                         IF p \in V
                         THEN File(Malformed, Probe(<< Track("General", None, None) >>))
                         ELSE IF p \in N THEN File(CourseDoc, ProbeFails)
                         ELSE File(Malformed, ProbeFails) ]
             /\ root_exists = TRUE
       \/ fs = << >> /\ root_exists = FALSE
    /\ MediaInfo = TRUE
    /\ listing = "asc"
    /\ pc = "start"
    /\ course_dirs = << >>
    /\ video_files = << >>
    /\ course = NoCourse
    /\ lesson = NoLesson
    /\ courses = << >>
    /\ parser_arg = << >>
    /\ returned = << >>
    /\ scanning = TRUE
    /\ NoRescan /\ DbIdle /\ FrontIdle

\* stop_scan: the user presses Stop while the scan thread runs.
StopScan ==
    /\ scanning /\ pc # "done"
    /\ scanning' = FALSE
    /\ UNCHANGED << fs, root_exists, MediaInfo, listing, pc, course_dirs, video_files,
                    course, lesson, courses, parser_arg, returned, previous, db,
                    call, first_id, shell, scan_result, scan_button, stop_button, workers >>

CancelNext == Next \/ StopScan

CancelSpec == CancelInit /\ [][CancelNext]_vars

\* C18: the walk checks for cancellation between courses: once the scan is
\* stopped, no course is begun for a directory not yet started.
C18_StopsBetweenCourses ==
    [][ ~scanning => ~(pc = "next_dir" /\ pc' = "course_nfo") ]_vars

\* The courses already in the result are never changed or dropped.
C18_AssembledKept ==
    [][ /\ Len(courses') >= Len(courses)
        /\ \A i \in 1..Len(courses) : courses'[i] = courses[i] ]_vars

\* The video files below a directory, and the child directories of the root.
VideosBelow(d) ==
    { p \in DOMAIN fs : IsPrefix(d, p) /\ HasVideoExtension(PathName(p)) }
RootDirs == { << p[1] >> : p \in { q \in DOMAIN fs : Len(q) >= 2 } }
\* The title the filename gives (none for an empty one).
FilenameTitle(l) ==
    IF TruthyText(parse_lesson_filename(l.filename))
    THEN parse_lesson_filename(l.filename) ELSE None
\* The sidecar reader gives nothing for a lesson: no document, or malformed.
SidecarFails(l) ==
    \/ ChosenSidecar(l.filepath) = None
    \/ ~fs[Val(ChosenSidecar(l.filepath))].xml.ok
\* The container reader gives nothing: capability absent, or probing fails.
ContainerFails(l) == ~MediaInfo \/ ~fs[l.filepath].media.ok

\* C19: reader failures do not abort a scan: whatever sidecars are missing
\* or malformed and whether the container capability is absent or fails,
\* the result has one course per child directory with videos, one lesson per
\* video, and the affected fields are absent or come from the next source.
C19_FailuresNotFatal ==
    (Done /\ root_exists) =>
        /\ { c.dirpath : c \in Range(courses) } = { d \in RootDirs : VideosBelow(d) # {} }
        /\ \A c \in Range(courses) :
             /\ Len(c.lessons) = Cardinality(VideosBelow(c.dirpath))
             /\ { c.lessons[j].filepath : j \in 1..Len(c.lessons) } = VideosBelow(c.dirpath)
        /\ \A l \in Lessons :
             /\ SidecarFails(l) =>
                  /\ l.description = None /\ ~l.source.nfo
                  /\ l.duration \in { None, ContainerOf(l).duration }
                  /\ l.title = IF IsSome(ContainerOf(l).title)
                               THEN ContainerOf(l).title ELSE FilenameTitle(l)
             /\ ContainerFails(l) =>
                  /\ ~l.source.file_tags
                  /\ l.duration \in { None, ChosenFields(l.filepath).duration }
                  /\ l.title = IF IsSome(ChosenFields(l.filepath).title)
                               THEN ChosenFields(l.filepath).title ELSE FilenameTitle(l)

\* A finished scan of a video whose sidecar is malformed and whose probing
\* fails: the lesson is there, titled by its filename, and the course is
\* named after its directory.
C19_Witness ==
    /\ Done /\ MediaInfo
    /\ Len(courses) = 1
    /\ courses[1].name = DirAlg \o FromDirSuffix
    /\ \E l \in Lessons :
         /\ ChosenSidecar(l.filepath) # None
         /\ SidecarFails(l) /\ ContainerFails(l)
         /\ l.title = Some(TxtFactoring)
         /\ l.duration = None

\* C20: with a missing library root scan_directory returns the empty list
\* of courses and raises nothing: it is about to start or has returned, and
\* the result is empty.
C20_MissingRoot ==
    ~root_exists => (pc \in { "start", "done" } /\ courses = << >>)

C20_Witness == ~root_exists /\ pc = "done" /\ courses = << >>

\* ------------------------------------------------- calls of the store
\* Most calls of the store in one run.
MaxCalls == 3

\* The scanner and the direct call of the parser are not in use.
ScanUnused ==
    /\ fs = << >>
    /\ root_exists = FALSE
    /\ MediaInfo = FALSE
    /\ listing = "asc"
    /\ course_dirs = << >>
    /\ video_files = << >>
    /\ course = NoCourse
    /\ lesson = NoLesson
    /\ courses = << >>
    /\ parser_arg = << >>
    /\ returned = << >>
    /\ scanning = FALSE

\* The course dictionaries passed to add_course: two directories, each as
\* named after its directory and as described by a sidecar.
CourseInputs ==
    { [ Course(<< d >>, d \o FromDirSuffix) EXCEPT !.source.directory_name = TRUE ] :
        d \in { DirAlg, DirBio } } \cup
    { [ Course(<< d >>, TxtAlgebra) EXCEPT !.description = Some(TxtPlot),
                                          !.instructor = Some(TxtEuler),
                                          !.year = Some(TxtYear),
                                          !.source.nfo = TRUE ] :
        d \in { DirAlg, DirBio } }

\* The lesson dictionaries passed to add_lesson: two files, each with its
\* title from the sidecar, from the container, or with no title at all.
LessonInputs ==
    UNION { { [ Lesson(p, PathName(p)) EXCEPT !.title = Some(TxtSets),
                                               !.duration = Some(2700),
                                               !.description = Some(TxtPlot),
                                               !.source.nfo = TRUE ],
              [ Lesson(p, PathName(p)) EXCEPT !.title = Some(TxtTag),
                                               !.duration = Some(125),
                                               !.source.file_tags = TRUE ],
              Lesson(p, PathName(p)) } :
            p \in { << DirAlg, FnIntro >>, << DirBio, FnIntro >> } }

\* The course ids passed to add_lesson.
CourseIds == 1..2

DbInit ==
    /\ ScanUnused
    /\ pc = "store"
    /\ NoRescan /\ DbIdle /\ FrontIdle

\* What a call of the store leaves alone.
DbStatic ==
    << fs, root_exists, MediaInfo, listing, pc, course_dirs, video_files, course,
       lesson, courses, parser_arg, returned, scanning, previous, shell,
       scan_result, scan_button, stop_button, workers >>

\* The first id returned for a key is remembered until the store is cleared.
Remember(ids, key, id) ==
    IF key \in DOMAIN ids THEN ids
    ELSE [ k \in DOMAIN ids \cup { key } |-> IF k = key THEN id ELSE ids[k] ]

\* db.add_course(course_dict)
AddCourse ==
    /\ pc = "store" /\ call.n < MaxCalls
    /\ \E course_data \in CourseInputs :
         LET r == add_course(db, course_data)
         IN  /\ db' = r.db
             /\ call' = [ op |-> "add_course", n |-> call.n + 1, data |-> course_data,
                          result |-> r.result, before |-> db ]
             /\ first_id' = [ first_id EXCEPT
                                !.courses = Remember(@, PathStr(course_data.dirpath),
                                                     r.result) ]
    /\ UNCHANGED DbStatic

\* db.add_lesson(course_id, lesson_dict)
AddLesson ==
    /\ pc = "store" /\ call.n < MaxCalls
    /\ \E course_id \in CourseIds, lesson_data \in LessonInputs :
         LET r == add_lesson(db, course_id, lesson_data)
         IN  /\ db' = r.db
             /\ call' = [ op |-> "add_lesson", n |-> call.n + 1, data |-> lesson_data,
                          course_id |-> course_id, result |-> r.result, before |-> db ]
             /\ first_id' = [ first_id EXCEPT
                                !.lessons = Remember(@, PathStr(lesson_data.filepath),
                                                     r.result) ]
    /\ UNCHANGED DbStatic

\* db.clear_all()
ClearAll ==
    /\ pc = "store" /\ call.n < MaxCalls
    /\ db' = clear_all(db)
    /\ call' = [ op |-> "clear_all", n |-> call.n + 1, before |-> db ]
    /\ first_id' = [ courses |-> << >>, lessons |-> << >> ]
    /\ UNCHANGED DbStatic

DbNext == AddCourse \/ AddLesson \/ ClearAll

DbSpec == DbInit /\ [][DbNext]_vars

\* The rows stored under a key.
CourseRows(store, course_data) ==
    { r \in store.courses : r.directory_path = PathStr(course_data.dirpath) }
LessonRows(store, lesson_data) ==
    { r \in store.lessons : r.file_path = PathStr(lesson_data.filepath) }
\* The last call was a call of add_course / add_lesson with a key that the
\* store already held.
RepeatedCourse == call.op = "add_course" /\ CourseRows(call.before, call.data) # {}
RepeatedLesson == call.op = "add_lesson" /\ LessonRows(call.before, call.data) # {}

\* C21: the store holds at most one course row per directory_path and one
\* lesson row per file_path; a repeated add_course / add_lesson returns the
\* id first returned for its key and adds no row; after either call the row
\* of the key holds the name or title, the description, the instructor and
\* year or the duration, and the metadata_source of that call.
C21_UpsertInPlace ==
    /\ \A r1 \in db.courses, r2 \in db.courses :
         r1.directory_path = r2.directory_path => r1 = r2
    /\ \A r1 \in db.lessons, r2 \in db.lessons : r1.file_path = r2.file_path => r1 = r2
    /\ RepeatedCourse =>
         /\ call.result = first_id.courses[PathStr(call.data.dirpath)]
         /\ Cardinality(db.courses) = Cardinality(call.before.courses)
    /\ RepeatedLesson =>
         /\ call.result = first_id.lessons[PathStr(call.data.filepath)]
         /\ Cardinality(db.lessons) = Cardinality(call.before.lessons)
    /\ call.op = "add_course" =>
         /\ CourseRows(db, call.data) # {}
         /\ \A r \in CourseRows(db, call.data) :
              /\ r.id = call.result
              /\ r.name = call.data.name
              /\ r.description = call.data.description
              /\ r.instructor = call.data.instructor
              /\ r.year = call.data.year
              /\ r.metadata_source = _format_source(call.data.source)
    /\ call.op = "add_lesson" =>
         /\ LessonRows(db, call.data) # {}
         /\ \A r \in LessonRows(db, call.data) :
              /\ r.id = call.result
              /\ r.title = call.data.title
              /\ r.description = call.data.description
              /\ r.duration_seconds = call.data.duration
              /\ r.metadata_source = _format_source(call.data.source)

\* A course and a lesson were each stored, and the last call stored one of
\* them again with other values than the row held.
C21_Witness ==
    /\ db.courses # {} /\ db.lessons # {}
    /\ \/ /\ RepeatedCourse
          /\ \E r \in CourseRows(call.before, call.data) : r.name # call.data.name
       \/ /\ RepeatedLesson
          /\ \E r \in LessonRows(call.before, call.data) : r.title # call.data.title

\* ------------------------------------------- a call of _format_source
SourceKeys == { "nfo", "file_tags", "filename", "directory_name" }
\* Every source dictionary: each key missing, false or true.
SourceDicts == UNION { [ K -> BOOLEAN ] : K \in SUBSET SourceKeys }

FormatInit ==
    /\ ScanUnused
    /\ pc = "format"
    /\ NoRescan /\ FrontIdle
    /\ db = EmptyDb
    /\ first_id = [ courses |-> << >>, lessons |-> << >> ]
    /\ call \in { [ op |-> "_format_source", n |-> 0, data |-> d ] : d \in SourceDicts }

\* _format_source(source_dict) is called and returns.
FormatSource ==
    /\ pc = "format" /\ call.n = 0
    /\ call' = [ op |-> "_format_source", n |-> 1, data |-> call.data,
                 result |-> _format_source(call.data) ]
    /\ UNCHANGED << db, first_id, DbStatic >>

FormatSpec == FormatInit /\ [][FormatSource]_vars

\* The pieces of a text between its commas, each without the blanks
\* around it.
RECURSIVE SplitComma(_)
SplitComma(s) ==
    LET commas == { i \in 1..Len(s) : s[i] = "," }
    IN  IF commas = {} THEN << Strip(s) >>
        ELSE << Strip(SubSeq(s, 1, SetMin(commas) - 1)) >> \o
             SplitComma(SubSeq(s, SetMin(commas) + 1, Len(s)))
\* The flags in their fixed order, each with its token.
FlagOrder ==
    << << "nfo", << "n","f","o" >> >>,
       << "file_tags", << "f","i","l","e","-","t","a","g","s" >> >>,
       << "filename", << "f","i","l","e","n","a","m","e" >> >>,
       << "directory_name", << "d","i","r","-","n","a","m","e" >> >> >>
FlagTrue(d, key) == key \in DOMAIN d /\ d[key] = TRUE
\* The tokens of the flags of d that are true, in the fixed order.
TrueTokens(d) ==
    LET kept == SelectSeq(FlagOrder, LAMBDA e : FlagTrue(d, e[1]))
    IN  [ i \in 1..Len(kept) |-> kept[i][2] ]
UnknownText == << "u","n","k","n","o","w","n" >>
FormatReturned == call.op = "_format_source" /\ call.n = 1

\* C22: _format_source returns the tokens of exactly the flags that are
\* true, in the order nfo, file-tags, filename, dir-name, as a comma-separated
\* list, and returns "unknown" if and only if no flag is true.
C22_FormatSource ==
    FormatReturned =>
      /\ (call.result = UnknownText) <=> (TrueTokens(call.data) = << >>)
      /\ TrueTokens(call.data) # << >> => SplitComma(call.result) = TrueTokens(call.data)

\* The call returned for a dictionary with all four flags true.
C22_Witness ==
    /\ FormatReturned
    /\ Len(TrueTokens(call.data)) = 4
    /\ Len(SplitComma(call.result)) = 4

\* ------------------------------------------------ a library scanned twice
\* Up to two courses with videos at two depths, a course sidecar and lesson
\* sidecars beside them or not, listed in either order; or a missing root.
RescanInit ==
    /\ \/ \E V \in { S \in SUBSET LayoutVideoPaths : Cardinality(S) <= MaxVideos },
             N \in { S \in SUBSET LayoutNfoPaths : Cardinality(S) <= MaxNfos },
             O \in { {}, LayoutOtherPaths } :
            /\ fs = [ p \in V \cup N \cup O |->
                        IF p \in V
                        THEN File(Malformed,
                                  Probe(<< Track("General", Some(125000), Some(TxtTag)) >>))
                        ELSE IF p \in N
                        THEN File(IF PathName(p) = NfoTvshow THEN CourseDoc ELSE LessonDoc,
                                  ProbeFails)
                        ELSE File(Malformed, ProbeFails) ]
            /\ root_exists = TRUE
       \/ fs = << >> /\ root_exists = FALSE
    /\ MediaInfo = TRUE
    /\ listing \in { "asc", "desc" }
    /\ pc = "start"
    /\ course_dirs = << >>
    /\ video_files = << >>
    /\ course = NoCourse
    /\ lesson = NoLesson
    /\ courses = << >>
    /\ parser_arg = << >>
    /\ returned = << >>
    /\ scanning = TRUE
    /\ NoRescan /\ DbIdle /\ FrontIdle

\* Mutant: the result list outlives the call (a module-level list or a
\* mutable default argument), so the second scan appends to the first.
Rescan_KeepCourses ==
    /\ pc = "done" /\ previous = << >>
    /\ previous' = << [ courses |-> courses, listing |-> listing ] >>
    /\ listing' \in { "asc", "desc" }
    /\ pc' = "start"
    /\ UNCHANGED << fs, root_exists, MediaInfo, course_dirs, video_files, course,
                    lesson, courses, parser_arg, returned, scanning, db, call,
                    first_id, shell, scan_result, scan_button, stop_button, workers >>

\* scan_directory is called again on the unchanged library, with a new
\* empty result list; the filesystem may list its directories in the same
\* or in the other order.
Rescan ==
    /\ pc = "done" /\ previous = << >>
    /\ previous' = << [ courses |-> courses, listing |-> listing ] >>
    /\ listing' \in { "asc", "desc" }
    /\ courses' = << >>
    /\ pc' = "start"
    /\ UNCHANGED << fs, root_exists, MediaInfo, course_dirs, video_files, course,
                    lesson, parser_arg, returned, scanning, db, call,
                    first_id, shell, scan_result, scan_button, stop_button, workers >>

RescanNext == Next \/ Rescan

RescanSpec == RescanInit /\ [][RescanNext]_vars

\* The second scan has returned.
ScannedTwice == pc = "done" /\ previous # << >>

CoursePaths(cs) == [ i \in 1..Len(cs) |-> cs[i].dirpath ]
LessonPaths(c) == [ j \in 1..Len(c.lessons) |-> c.lessons[j].filepath ]
\* Strictly ascending in the order of paths.
Ascending(seq) == \A i \in 1..Len(seq), j \in 1..Len(seq) : i < j => PathLess(seq[i], seq[j])

\* C24: scan_directory returns the courses in the sorted order of their
\* directories and each course's lessons in the sorted order of the video
\* paths, whatever the order in which the filesystem lists the files.
C24_SortedOrder ==
    /\ pc = "done" =>
         /\ Ascending(CoursePaths(courses))
         /\ \A c \in Range(courses) : Ascending(LessonPaths(c))
    /\ ScannedTwice =>
         /\ CoursePaths(courses) = CoursePaths(previous[1].courses)
         /\ \A i \in 1..Len(courses) :
              LessonPaths(courses[i]) = LessonPaths(previous[1].courses[i])

\* The library was scanned under both listing orders, the second one
\* descending, and a course has two lessons, one of them in a subdirectory.
C24_Witness ==
    /\ ScannedTwice
    /\ previous[1].listing = "asc" /\ listing = "desc"
    /\ \E c \in Range(courses) :
         /\ Len(c.lessons) = 2
         /\ \E l \in Range(c.lessons) : Len(l.filepath) = 3

\* The title flags of a lesson that are set.
TitleFlags(l) == { k \in { "nfo", "file_tags", "filename" } : l.source[k] }

\* C25: after a scan every lesson has at most one of the flags nfo,
\* file_tags, filename and never directory_name; it has a flag exactly when
\* it has a title, and the flag names the source the title came from.
C25_LessonFlags ==
    Done =>
      \A l \in Lessons :
        /\ Cardinality(TitleFlags(l)) <= 1
        /\ ~l.source.directory_name
        /\ (TitleFlags(l) # {}) <=> IsSome(l.title)
        /\ l.source.nfo => l.title = SidecarOf(l).title
        /\ l.source.file_tags => l.title = ContainerOf(l).title
        /\ l.source.filename => l.title = FilenameTitle(l)

\* A scan returned a lesson whose sidecar parses but has no title, and
\* whose container has one.
C25_Witness ==
    Done /\ \E l \in Lessons :
      /\ IsSome(LessonNfoData(l.filepath))
      /\ ~IsSome(SidecarOf(l).title)
      /\ l.source.file_tags

\* C26: after add_lesson(course_id, record) the row of record's file_path
\* has the course_id passed in, for a new row and for an existing one, and
\* get_course_lessons(course_id) includes it.
C26_LessonUnderCourse ==
    call.op = "add_lesson" =>
      /\ LessonRows(db, call.data) # {}
      /\ \A r \in LessonRows(db, call.data) :
           /\ r.course_id = call.course_id
           /\ r \in get_course_lessons(db, call.course_id)

\* A row that the call inserted is stored under the course passed in.
C26_InsertedUnderCourse ==
    (call.op = "add_lesson" /\ ~RepeatedLesson) =>
      \A r \in LessonRows(db, call.data) : r \in get_course_lessons(db, call.course_id)

\* The metadata_sources rows of a lesson row.
SourceRowsOf(r) == { m \in db.metadata_sources : m.lesson_id = Some(r.id) }
\* A title_source agrees with the flags: it is the token of a flag that is
\* set, or "unknown" when none is.
AgreesWith(ts, source) ==
    IF TrueTokens(source) = << >> THEN ts = UnknownText
    ELSE ts \in Range(TrueTokens(source))

\* C27: every lesson row has exactly one metadata_sources row, and its
\* title_source agrees with the flags of the most recent add_lesson call
\* for that file_path.
C27_TitleSourceCurrent ==
    /\ \A r \in db.lessons : Cardinality(SourceRowsOf(r)) = 1
    /\ call.op = "add_lesson" =>
         \A r \in LessonRows(db, call.data) :
           \A m \in SourceRowsOf(r) : AgreesWith(m.title_source, call.data.source)

\* Every lesson row has exactly one metadata_sources row, and a row that
\* the call inserted has the title_source of the call's flags.
C27_OneSourcesRow ==
    /\ \A r \in db.lessons : Cardinality(SourceRowsOf(r)) = 1
    /\ (call.op = "add_lesson" /\ ~RepeatedLesson) =>
         \A r \in LessonRows(db, call.data) :
           \A m \in SourceRowsOf(r) : AgreesWith(m.title_source, call.data.source)

\* ------------------------------------------------------- the front ends
\* Most scan workers started in one run of a graphical front end.
MaxWorkers == 2

\* The front ends: the command line (main of edu_scanner.py), the two
\* Tkinter shells and the PyQt shell.
Shells == { "cli", "gui", "eduscan-gui", "eduscan-qt" }
TkShells == { "gui", "eduscan-gui" }

\* The parameters of scan_directory, and the keywords each front end passes
\* besides the library path.
ScanParams == { "library_path" }
CallKeywords(sh) ==
    IF sh \in { "eduscan-gui", "eduscan-qt" } THEN { "skip_media_info" } ELSE { }

\* What scan_directory returns for the library of the front end: no
\* course, one course of two lessons, or that course and a second one.
FrontLibraries ==
    LET alg == [ Course(<< DirAlg >>, TxtAlgebra) EXCEPT
                   !.source.nfo = TRUE,
                   !.lessons =
                      << [ Lesson(<< DirAlg, FnFactoring >>, FnFactoring) EXCEPT
                             !.title = Some(TxtFactoring), !.source.filename = TRUE ],
                         [ Lesson(<< DirAlg, FnIntro >>, FnIntro) EXCEPT
                             !.title = Some(TxtSets), !.source.nfo = TRUE ] >> ]
        bio == [ Course(<< DirBio >>, DirBio \o FromDirSuffix) EXCEPT
                   !.source.directory_name = TRUE,
                   !.lessons = << Lesson(<< DirBio, FnIntro >>, FnIntro) >> ]
    IN  { << >>, << alg >>, << alg, bio >> }

\* A worker at its start.  courses is the result of its scan, i and j the
\* course and the lesson it is at, is_running the flag of a ScanWorker.
\* Two fields record what happened and are read by no step: stopped_at
\* (where the worker was when the user first pressed Stop during its run,
\* else "none") and log (the courses << i, 0 >> and lessons << i, j >> the
\* worker has stored).
NewWorker(clear_db) ==
    [ pc |-> "open", clear_db |-> clear_db, courses |-> << >>, i |-> 1, j |-> 1,
      course_id |-> 0, is_running |-> TRUE, error |-> FALSE,
      stopped_at |-> "none", log |-> << >> ]

\* The worker has not left run_scan / run / main.
Running(w) == workers[w].pc \notin { "emitted", "ended" }

FrontInit ==
    /\ ScanUnused
    /\ pc = "front"
    /\ NoRescan
    /\ db = EmptyDb /\ call = NoCall /\ first_id = [ courses |-> << >>, lessons |-> << >> ]
    /\ shell \in Shells
    /\ scan_result \in FrontLibraries
    /\ stop_button = FALSE
    /\ \/ /\ shell = "cli"
          /\ scan_button = FALSE
          /\ \E clear_db \in BOOLEAN : workers = << NewWorker(clear_db) >>
       \/ /\ shell # "cli"
          /\ scan_button = TRUE
          /\ workers = << >>

\* What no step of a front end writes.
FrontStatic ==
    << fs, root_exists, MediaInfo, listing, pc, course_dirs, video_files, course,
       lesson, courses, parser_arg, returned, previous, call, first_id, shell,
       scan_result >>

\* start_scan: the user presses Scan; a worker thread is started.
start_scan ==
    /\ shell # "cli" /\ scan_button /\ Len(workers) < MaxWorkers
    /\ \E clear_db \in BOOLEAN : workers' = Append(workers, NewWorker(clear_db))
    /\ scanning' = TRUE
    /\ scan_button' = FALSE
    /\ stop_button' = TRUE
    /\ UNCHANGED << db, FrontStatic >>

\* stop_scan: the user presses Stop.  The Tkinter shells clear the shared
\* flag and enable Scan again; the PyQt shell tells its latest worker to
\* stop and leaves the buttons as they are.
stop_scan ==
    /\ shell # "cli" /\ stop_button
    /\ scanning' = FALSE
    /\ IF shell \in TkShells
       THEN /\ scan_button' = TRUE
            /\ stop_button' = FALSE
            /\ workers' = [ w \in 1..Len(workers) |->
                              IF Running(w) /\ workers[w].stopped_at = "none"
                              THEN [ workers[w] EXCEPT !.stopped_at = workers[w].pc ]
                              ELSE workers[w] ]
       ELSE /\ UNCHANGED << scan_button, stop_button >>
            /\ workers' = [ workers EXCEPT
                              ![Len(workers)].is_running = FALSE,
                              ![Len(workers)].stopped_at =
                                 IF Running(Len(workers)) /\ @ = "none"
                                 THEN workers[Len(workers)].pc ELSE @ ]
    /\ UNCHANGED << db, FrontStatic >>

\* db = LibraryDatabase(db_path); if clear_db: db.clear_all()
OpenDb ==
    \E w \in 1..Len(workers) :
      /\ workers[w].pc = "open"
      /\ db' = IF workers[w].clear_db THEN clear_all(db) ELSE db
      /\ workers' = [ workers EXCEPT ![w].pc = "scan" ]
      /\ UNCHANGED << scanning, scan_button, stop_button, FrontStatic >>

\* courses = scan_directory(lib_path, ...): a keyword that is no parameter
\* raises TypeError, which the graphical shells catch; `if courses:`.
CallScan ==
    \E w \in 1..Len(workers) :
      /\ workers[w].pc = "scan"
      /\ workers' =
           IF CallKeywords(shell) \subseteq ScanParams
           THEN [ workers EXCEPT ![w].courses = scan_result,
                                 ![w].pc = IF scan_result # << >> THEN "loop"
                                           ELSE "finally" ]
           ELSE [ workers EXCEPT ![w].error = TRUE, ![w].pc = "finally" ]
      /\ UNCHANGED << db, scanning, scan_button, stop_button, FrontStatic >>

\* for course in courses: if not self.scanning: break (the command line
\* has no such test; a ScanWorker tests its own is_running).
LoopCheck ==
    \E w \in 1..Len(workers) :
      LET flag == IF shell = "cli" THEN TRUE
                  ELSE IF shell \in TkShells THEN scanning
                  ELSE workers[w].is_running
      IN  /\ workers[w].pc = "loop"
          /\ workers' =
               IF workers[w].i <= Len(workers[w].courses) /\ flag
               THEN [ workers EXCEPT ![w].pc = "add_course" ]
               ELSE [ workers EXCEPT ![w].pc = "finally" ]
          /\ UNCHANGED << db, scanning, scan_button, stop_button, FrontStatic >>

\* course_id = db.add_course(course_dict)
StoreCourse ==
    \E w \in 1..Len(workers) :
      LET r == add_course(db, workers[w].courses[workers[w].i])
      IN  /\ workers[w].pc = "add_course"
          /\ db' = r.db
          /\ workers' = [ workers EXCEPT
                            ![w].course_id = r.result,
                            ![w].j = 1,
                            ![w].log = Append(@, << workers[w].i, 0 >>),
                            ![w].pc = "add_lesson" ]
          /\ UNCHANGED << scanning, scan_button, stop_button, FrontStatic >>

\* for lesson in course.lessons: db.add_lesson(course_id, lesson_dict)
StoreLesson ==
    \E w \in 1..Len(workers) :
      LET lessons == workers[w].courses[workers[w].i].lessons
      IN  /\ workers[w].pc = "add_lesson"
          /\ IF workers[w].j <= Len(lessons)
             THEN /\ db' = add_lesson(db, workers[w].course_id, lessons[workers[w].j]).db
                  /\ workers' = [ workers EXCEPT
                                    ![w].log = Append(@, << workers[w].i, workers[w].j >>),
                                    ![w].j = @ + 1 ]
             ELSE /\ db' = db
                  /\ workers' = [ workers EXCEPT ![w].i = @ + 1, ![w].pc = "loop" ]
          /\ UNCHANGED << scanning, scan_button, stop_button, FrontStatic >>

\* finally: a Tkinter worker resets the buttons, a ScanWorker emits
\* finished, main returns.
Finally ==
    \E w \in 1..Len(workers) :
      /\ workers[w].pc = "finally"
      /\ IF shell \in TkShells
         THEN /\ scan_button' = TRUE
              /\ stop_button' = FALSE
              /\ workers' = [ workers EXCEPT ![w].pc = "flag" ]
         ELSE /\ UNCHANGED << scan_button, stop_button >>
              /\ workers' = [ workers EXCEPT
                                ![w].pc = IF shell = "cli" THEN "ended" ELSE "emitted" ]
      /\ UNCHANGED << db, scanning, FrontStatic >>

\* finally: self.scanning = False, the last statement of a Tkinter worker.
ClearFlag ==
    \E w \in 1..Len(workers) :
      /\ workers[w].pc = "flag"
      /\ scanning' = FALSE
      /\ workers' = [ workers EXCEPT ![w].pc = "ended" ]
      /\ UNCHANGED << db, scan_button, stop_button, FrontStatic >>

\* on_scan_finished: the PyQt window handles the worker's finished signal.
on_scan_finished ==
    \E w \in 1..Len(workers) :
      /\ workers[w].pc = "emitted"
      /\ scan_button' = TRUE
      /\ stop_button' = FALSE
      /\ scanning' = FALSE
      /\ workers' = [ workers EXCEPT ![w].pc = "ended" ]
      /\ UNCHANGED << db, FrontStatic >>

FrontNext ==
    \/ start_scan
    \/ stop_scan
    \/ OpenDb
    \/ CallScan
    \/ LoopCheck
    \/ StoreCourse
    \/ StoreLesson
    \/ Finally
    \/ ClearFlag
    \/ on_scan_finished

FrontSpec == FrontInit /\ [][FrontNext]_vars

\* The workers that are running.
RunningWorkers == { w \in 1..Len(workers) : Running(w) }

\* C28: in the graphical shells at most one scan worker runs at any time,
\* under any interleaving of start_scan, stop_scan and the workers' steps.
C28_OneWorker == Cardinality(RunningWorkers) <= 1

\* In the PyQt shell, and on the command line, at most one worker runs.
C28_OneWorkerQt == shell \in { "eduscan-qt", "cli" } => Cardinality(RunningWorkers) <= 1

\* The worker is between `for course in courses` and the end of the loop.
Storing == { "loop", "add_course", "add_lesson" }
\* The worker has left the loop.
PastLoop(w) == workers[w].pc \in { "finally", "flag", "emitted", "ended" }
\* Every course the worker stored, it stored with all of its lessons.
WholeCourses(w) ==
    \A e \in Range(workers[w].log) :
      e[2] = 0 =>
        \A j \in 1..Len(workers[w].courses[e[1]].lessons) :
          << e[1], j >> \in Range(workers[w].log)
\* The worker goes on to store another course.
BeginsCourse(w) == workers[w].pc = "loop" /\ workers'[w].pc = "add_course"

\* C29: when the user requests stop while a worker is storing, the worker
\* stores no course after the one it is storing, and every course it
\* stored has all of its lessons stored.
C29_StopBetweenCourses ==
    /\ [](\A w \in 1..Len(workers) : PastLoop(w) => WholeCourses(w))
    /\ [][ \A w \in 1..Len(workers) :
             workers[w].stopped_at \in Storing => ~BeginsCourse(w) ]_vars

\* Every course a worker stored has all of its lessons stored; and while
\* no second scan is started, a worker stopped while storing stores no
\* further course.
C29_CoursesWhole == \A w \in 1..Len(workers) : PastLoop(w) => WholeCourses(w)
C29_SingleScan ==
    [][ \A w \in 1..Len(workers) :
          (Len(workers) = 1 /\ workers[w].stopped_at \in Storing) => ~BeginsCourse(w) ]_vars

\* The store holds a course and all its lessons, each under the course.
Stored(c) ==
    /\ CourseRows(db, c) # {}
    /\ \A l \in Range(c.lessons) :
         /\ LessonRows(db, l) # {}
         /\ \A r \in LessonRows(db, l) : \E cr \in CourseRows(db, c) : r.course_id = cr.id
\* The worker made the call of the store for every course and lesson.
StoredAll(w) ==
    \A i \in 1..Len(scan_result) :
      \A j \in 0..Len(scan_result[i].lessons) : << i, j >> \in Range(workers[w].log)
\* The only scan of the run has ended and the user never pressed Stop.
EndedUncancelled ==
    /\ Len(workers) = 1
    /\ workers[1].pc = "ended"
    /\ workers[1].stopped_at = "none"

\* C30: in each front end a scan that is not cancelled ends with every
\* Course that scan_directory returns, and every Lesson of it, stored; the
\* call of scan_directory is accepted and the error path is not taken.
C30_FrontEndStores ==
    EndedUncancelled =>
      /\ ~workers[1].error
      /\ StoredAll(1)
      /\ \A c \in Range(scan_result) : Stored(c)

\* On the command line and in gui.py the scan stores everything.
C30_CliAndGui ==
    (EndedUncancelled /\ shell \in { "cli", "gui" }) =>
      /\ ~workers[1].error
      /\ StoredAll(1)
      /\ \A c \in Range(scan_result) : Stored(c)
====
